---- MODULE Spec2Model ----
(***************************************************************************)
(* A model of the forum service of server.py and of its client: the        *)
(* stop-and-wait datagram channel (reliable_send / reliable_recv), the     *)
(* acceptor of main(), the session worker client_handler() with the        *)
(* registry logged_users, and the client's authenticate() and run().       *)
(*                                                                         *)
(* Byte strings and text are sequences of bytes, each a one-character      *)
(* string; xFF stands for the byte 0xFF, which no UTF-8 text contains.     *)
(***************************************************************************)
EXTENDS Integers, Sequences, FiniteSets, TLC

VARIABLES
    sock,          \* sock[a]: the datagrams queued at the socket bound to address a
    pc,            \* pc[p]: where process p stands in its own function
    rs,            \* rs[p]: the frame of p's running (or last) reliable_send
    rr,            \* rr[p]: the frame of p's running (or last) reliable_recv
    sent,          \* sent[p]: the sendto calls of an observed p's running reliable_send
    acked,         \* acked[p]: the acknowledgments an observed p's reliable_recv has sent
    test,          \* the case run: a channel's arguments, the lines typed, a command
    logged_users,  \* server.py: the registry
    threads_lock,  \* server.py: the holder of threads_lock, or NoProc
    credentials,   \* the lines of credentials.txt
    username,      \* username[p]: the local of client_handler / authenticate
    addr,          \* addr[p]: the address client_handler last received from
    user_exists,   \* user_exists[p]: the local of client_handler
    typed,         \* typed[c]: the usernames and the commands typed at client c so far
    timeouts,      \* the recvfrom calls of the sessions that have timed out so far
    files,         \* the server's working directory: files[path] for every path there
    auth,          \* auth[w]: the frame of authenticate_user(new_user=True) in worker w
    settimeout     \* the addresses of the sockets that have a timeout set

vars == <<sock, pc, rs, rr, sent, acked, test, logged_users, threads_lock,
          credentials, username, addr, user_exists, typed, timeouts, files, auth,
          settimeout>>

srvVars == <<logged_users, threads_lock, credentials, username, addr, user_exists,
             typed, files, auth>>

----------------------------------------------------------------------------
(* Program constants. *)

BUFFER_SIZE == 1024
MAX_RETRIES == 3
RAND_HI == 10000

(* Bounds of the model. *)

MaxLen == 2        \* the longest short payload of the paired-channel run
SeqSamples == 2    \* how many values of random.randint(0, 10000) the server draws
ClientSamples == 1 \* how many values of random.randint(0, 10000) a client draws
MaxInbox == 2      \* datagrams a socket queues before the kernel drops new ones
MaxSent == 4       \* the cap of the sendto and acknowledgment counters
MaxStray == 1      \* stray datagrams queued at a socket at one time
MaxWorkers == 2    \* session workers the acceptor starts
MaxLogins == 1     \* usernames typed at one client
MaxCmds == 1       \* commands other than XIT typed in one run
MaxTimeouts == 2   \* recvfrom calls of the sessions that time out in one run
MaxLines == 4      \* lines of a thread file

----------------------------------------------------------------------------
(* Text and bytes. *)

xFF == "\\xff"
BAR == "|"
Digits == <<"0", "1", "2", "3", "4", "5", "6", "7", "8", "9">>
Whitespace == {" ", "\n", "\t"}

IsDigit(b) == \E d \in 1..10 : Digits[d] = b
DigitVal(b) == (CHOOSE d \in 1..10 : Digits[d] = b) - 1

Front(s) == SubSeq(s, 1, Len(s) - 1)
Last(s) == s[Len(s)]

Contains(s, b) == \E i \in 1..Len(s) : s[i] = b
IndexOf(s, b) == CHOOSE i \in 1..Len(s) : s[i] = b /\ \A j \in 1..(i - 1) : s[j] # b
Count(s, b) == Cardinality({i \in 1..Len(s) : s[i] = b})

(* str(n) of a natural number, as an f-string formats it. *)
RECURSIVE IntToStr(_)
IntToStr(n) ==
    IF n < 10 THEN <<Digits[n + 1]>>
    ELSE IntToStr(n \div 10) \o <<Digits[(n % 10) + 1]>>

RECURSIVE DigitsVal(_)
DigitsVal(s) == IF s = <<>> THEN 0 ELSE DigitsVal(Front(s)) * 10 + DigitVal(Last(s))

(* str.strip(): leading and trailing whitespace removed. *)
RECURSIVE LStrip(_)
LStrip(s) == IF s # <<>> /\ Head(s) \in Whitespace THEN LStrip(Tail(s)) ELSE s

RECURSIVE RStrip(_)
RStrip(s) == IF s # <<>> /\ Last(s) \in Whitespace THEN RStrip(Front(s)) ELSE s

Strip(s) == RStrip(LStrip(s))

(* bytes.decode(): UnicodeDecodeError on a byte that is not UTF-8. *)
Decodable(data) == ~Contains(data, xFF)

(* int(text): surrounding whitespace and one sign are accepted; ok is FALSE
   where int() raises ValueError. *)
PyInt(s) ==
    LET t == Strip(s)
        signed == t # <<>> /\ Head(t) \in {"+", "-"}
        body == IF signed THEN Tail(t) ELSE t
        good == body # <<>> /\ \A i \in 1..Len(body) : IsDigit(body[i])
    IN  IF ~good THEN [ok |-> FALSE, val |-> 0]
        ELSE [ok |-> TRUE,
              val |-> IF signed /\ Head(t) = "-" THEN 0 - DigitsVal(body)
                      ELSE DigitsVal(body)]

(* int(ack_data.decode()): UnicodeDecodeError is a ValueError too. *)
AckInt(ack_data) ==
    IF Decodable(ack_data) THEN PyInt(ack_data) ELSE [ok |-> FALSE, val |-> 0]

(* A directory, and a file of the given lines. *)
Dir == [dir |-> TRUE, lines |-> <<>>]
File(lines) == [dir |-> FALSE, lines |-> lines]

(* The working directory when the server starts: the upload directory, which
   the module makes at import (l.28-30).  credentials.txt is held apart, in
   credentials. *)
UPLOAD_DIR == <<"u", "p", "l", "o", "a", "d", "s">>
WorkingDirectory == [p \in {UPLOAD_DIR} |-> Dir]

----------------------------------------------------------------------------
(* Processes, addresses and datagrams. *)

Workers == {"w1", "w2", "w3"}
Clients == {"cA", "cB"}
Proc == {"snd", "rcv", "main"} \cup Workers \cup Clients

NoProc == "nobody"
NoAddr == "nowhere"

(* The address of the socket a process uses: the acceptor and every worker
   share the one socket main() binds. *)
SockOf(p) ==
    CASE p = "snd" -> "P"
      [] p = "rcv" -> "Q"
      [] p = "cA" -> "A"
      [] p = "cB" -> "B"
      [] OTHER -> "S"

Addr == {"P", "Q", "S", "A", "B"}
StrayAddr == "X"

(* sock.sendto(data, dst): the datagram joins dst's queue; a full queue, or an
   address nobody is bound to, loses it. *)
sendto(net, src, dst, data) ==
    IF dst \in DOMAIN net /\ Len(net[dst]) < MaxInbox
    THEN [net EXCEPT ![dst] = Append(@, [src |-> src, data |-> data])]
    ELSE net

(* sock.recvfrom(BUFFER_SIZE): the first BUFFER_SIZE bytes of the datagram at
   the head of the queue, and its source. *)
recvfrom(net, a) ==
    LET d == Head(net[a])
    IN  [data |-> SubSeq(d.data, 1, IF Len(d.data) < BUFFER_SIZE THEN Len(d.data)
                                     ELSE BUFFER_SIZE),
         src |-> d.src]

(* random.random() < packet_loss_rate, both in hundredths. *)
RandomSamples == {0, 99}
simulate_packet_loss(r, packet_loss_rate) == r < packet_loss_rate

(* The values random.randint(0, 10000) is drawn from in the model: the first
   n of 0, 5000, 10000. *)
Draws(n) == {m \in {k * 5000 : k \in 0..(n - 1)} : m <= RAND_HI}
SeqNums == Draws(SeqSamples)

Bump(n) == IF n < MaxSent THEN n + 1 ELSE n

(* The transmissions and the acknowledgments are counted at the two ends of
   the paired channel. *)
Observed == {"snd", "rcv"}
Tally(p, n) == IF p \in Observed THEN Bump(n) ELSE n

----------------------------------------------------------------------------
(* Framing: reliable_send's packet and reliable_recv's reading of one. *)

BIN == <<"B", "I", "N">>

MkPacket(seq_num, data, is_binary) ==
    IF is_binary
    THEN IntToStr(seq_num) \o <<BAR>> \o BIN \o <<BAR>> \o data
    ELSE IntToStr(seq_num) \o <<BAR>> \o data

(* What reliable_recv makes of a datagram that simulated loss let through:
   ret is FALSE where it returns nothing and goes on to the next datagram;
   ack is TRUE where it sends seq back to the source. *)
ParseFrame(data) ==
    LET none == [ret |-> FALSE, ack |-> FALSE, seq |-> <<>>, payload |-> <<>>,
                 is_binary |-> FALSE]
    IN  IF Decodable(data)
        THEN IF Contains(data, BAR)
             THEN LET i == IndexOf(data, BAR)
                  IN  [ret |-> TRUE, ack |-> TRUE, seq |-> SubSeq(data, 1, i - 1),
                       payload |-> SubSeq(data, i + 1, Len(data)),
                       is_binary |-> FALSE]
             ELSE [ret |-> TRUE, ack |-> FALSE, seq |-> <<>>, payload |-> data,
                   is_binary |-> FALSE]
        ELSE IF Count(data, BAR) >= 2
             THEN LET i == IndexOf(data, BAR)
                      rest == SubSeq(data, i + 1, Len(data))
                      j == IndexOf(rest, BAR)
                  IN  IF Decodable(SubSeq(data, 1, i - 1))
                      THEN [ret |-> TRUE, ack |-> TRUE,
                            seq |-> SubSeq(data, 1, i - 1),
                            payload |-> SubSeq(rest, j + 1, Len(rest)),
                            is_binary |-> TRUE]
                      ELSE none
             ELSE none

----------------------------------------------------------------------------
(* reliable_send and reliable_recv, run by process p on its socket. *)

IdleSend == [st |-> "idle", seq_num |-> 0, packet |-> <<>>, attempts |-> 0,
             addr |-> NoAddr, rate |-> 0, ret |-> FALSE]

IdleRecv == [st |-> "idle", rate |-> 0, data |-> <<>>, addr |-> NoAddr,
             is_binary |-> FALSE, none |-> FALSE]

(* The frame of reliable_send at its entry: the sequence number, the packet,
   attempts = 0. *)
NewSend(seq_num, to, data, is_binary, rate) ==
    [st |-> "wait", seq_num |-> seq_num, packet |-> MkPacket(seq_num, data, is_binary),
     attempts |-> 0, addr |-> to, rate |-> rate, ret |-> FALSE]

(* The return of reliable_send: its locals are gone, its value stays. *)
Returned(value) == [IdleSend EXCEPT !.ret = value]

(* The entry of reliable_recv: blocked in recvfrom. *)
NewRecv(rate) == [IdleRecv EXCEPT !.st = "recv", !.rate = rate]

InSend(p) == rs[p].st # "idle"
InRecv(p) == rr[p].st # "idle"

(* ack_seq == seq_num, with ack_seq = int(ack_data.decode()). *)
AckMatches(ack_data, seq_num) ==
    AckInt(ack_data).ok /\ AckInt(ack_data).val = seq_num

(* A timeout that is not counted. *)
SameAttempt(attempts) == attempts

(* attempts += 1 *)
NextAttempt(attempts) == attempts + 1

(* Nothing typed yet at a client; no authenticate_user(new_user=True) running
   in a worker. *)
NoneTyped == [logins |-> 0, cmds |-> 0, command |-> <<>>]
IdleAuth == [st |-> "idle", password |-> <<>>, pos |-> 0]

(* Neither in reliable_send nor in reliable_recv. *)
Ready(p) == rs[p].st = "idle" /\ rr[p].st = "idle"

WorkerSeq == <<"w1", "w2", "w3">>
Started == Cardinality({w \in Workers : pc[w] # "off"})

(* A process blocked in recvfrom with a datagram queued at its socket. *)
Blocked(p) ==
    \/ rs[p].st = "wait"
    \/ rr[p].st = "recv"
    \/ pc[p] = "accept" /\ Started < MaxWorkers /\ Started < Len(WorkerSeq)
CanRead(p) == Blocked(p) /\ sock[SockOf(p)] # <<>>

(* Where a process goes on by itself, and where it first takes threads_lock. *)
StepPc ==
    {"recv_user", "lock_check", "inuse_send", "prompt_send", "recv_pass",
     "welcome_send", "recv_cmd", "lock_xit", "goodbye_send", "reply_send",
     "reject_send", "finally", "auth_write", "ready_send", "user_send", "user_resp", "pass_send_old",
     "pass_send_new", "pass_resp_old", "pass_resp_new", "cmd_send", "cmd_resp",
     "xit_send", "xit_resp"}
LockPc == {"lock_check", "welcome_send", "lock_xit", "finally"}

Busy(p) ==
    \/ CanRead(p)
    \/ Ready(p) /\ pc[p] \in StepPc /\ (pc[p] \in LockPc => threads_lock = NoProc)

(* ACK_TIMEOUT (2 s) and a user at the keyboard are slow against the delivery
   and the handling of a datagram: a recvfrom times out, and a line is typed,
   only when no process has a step to take other than waiting, for a datagram,
   for the lock or for its user. *)
Quiet == \A q \in Proc : ~Busy(q)

(* The head of the loop of reliable_send, entered by p with the frame f and
   the network net: while attempts < MAX_RETRIES: sendto unless simulated loss
   drops it, sock.settimeout(ACK_TIMEOUT) (the client's socket has it set from
   __init__), then wait for the acknowledgment; return False once the attempts
   are used up. *)
LoopHead(p, f, net) ==
    IF f.attempts < MAX_RETRIES
    THEN \E r \in RandomSamples :
           /\ sock' = IF simulate_packet_loss(r, f.rate) THEN net
                      ELSE sendto(net, SockOf(p), f.addr, f.packet)
           /\ sent' = IF simulate_packet_loss(r, f.rate) THEN sent
                      ELSE [sent EXCEPT ![p] = Tally(p, @)]
           /\ rs' = [rs EXCEPT ![p] = f]
           /\ settimeout' = settimeout \cup {SockOf(p)}
    ELSE /\ sock' = net
         /\ sent' = [sent EXCEPT ![p] = 0]
         /\ rs' = [rs EXCEPT ![p] = Returned(FALSE)]
         /\ UNCHANGED settimeout

(* ack_data, _ = sock.recvfrom(BUFFER_SIZE): a matching number returns True;
   any other datagram (a mismatch, a ValueError) goes round the loop again. *)
RS_Recv(p) ==
    /\ rs[p].st = "wait"
    /\ sock[SockOf(p)] # <<>>
    /\ IF AckMatches(recvfrom(sock, SockOf(p)).data, rs[p].seq_num)
       THEN /\ sock' = [sock EXCEPT ![SockOf(p)] = Tail(@)]
            /\ sent' = [sent EXCEPT ![p] = 0]
            /\ rs' = [rs EXCEPT ![p] = Returned(TRUE)]
            /\ UNCHANGED settimeout
       ELSE LoopHead(p, rs[p], [sock EXCEPT ![SockOf(p)] = Tail(@)])
    /\ UNCHANGED <<pc, rr, acked, test, srvVars, timeouts>>

(* except socket.timeout: attempts += 1, and round the loop again. *)
RS_Timeout(p) ==
    /\ rs[p].st = "wait"
    /\ Quiet
    /\ p \in Observed \/ timeouts < MaxTimeouts
    /\ timeouts' = IF p \in Observed THEN timeouts ELSE timeouts + 1
    /\ LoopHead(p, [rs[p] EXCEPT !.attempts = NextAttempt(@)], sock)
    /\ UNCHANGED <<pc, rr, acked, test, srvVars>>

(* reliable_send returns in this step. *)
Returning(p) == rs[p].st # "idle" /\ rs'[p].st = "idle"

(* data, addr = sock.recvfrom(BUFFER_SIZE) in reliable_recv: drop it by
   simulated loss, or acknowledge and return it. *)
RR_Recv(p) ==
    /\ rr[p].st = "recv"
    /\ sock[SockOf(p)] # <<>>
    /\ \E r \in RandomSamples :
         LET a == SockOf(p)
             d == recvfrom(sock, a)
             rest == [sock EXCEPT ![a] = Tail(@)]
             lost == simulate_packet_loss(r, rr[p].rate)
             f == ParseFrame(d.data)
         IN  /\ sock' = IF ~lost /\ f.ack THEN sendto(rest, a, d.src, f.seq) ELSE rest
             /\ acked' = IF ~lost /\ f.ack THEN [acked EXCEPT ![p] = Tally(p, @)] ELSE acked
             /\ rr' = IF ~lost /\ f.ret
                      THEN [rr EXCEPT ![p].st = "idle", ![p].data = f.payload,
                                      ![p].addr = d.src, ![p].is_binary = f.is_binary,
                                      ![p].none = FALSE]
                      ELSE rr
    /\ UNCHANGED <<pc, rs, sent, settimeout, test, srvVars, timeouts>>

----------------------------------------------------------------------------
(* The paired channel: "snd" calls reliable_send(sock, Q, data, is_binary,
   rate) once, "rcv" is in one call of reliable_recv(sock, rrate). *)

Rates == {0, 50, 100}

RECURSIVE SeqsUpTo(_, _)
SeqsUpTo(S, n) ==
    IF n = 0 THEN {<<>>}
    ELSE SeqsUpTo(S, n - 1) \cup
         {Append(s, b) : s \in {t \in SeqsUpTo(S, n - 1) : Len(t) = n - 1}, b \in S}

(* A payload that fills a receive buffer by itself. *)
LongPayload == [i \in 1..BUFFER_SIZE |-> "a"]

Payloads ==
    SeqsUpTo({"a", BAR, xFF}, MaxLen) \cup {LongPayload, BIN \o <<BAR, "a">>}

InitServerIdle ==
    /\ logged_users = {}
    /\ threads_lock = NoProc
    /\ credentials = <<>>
    /\ username = [p \in Proc |-> <<>>]
    /\ addr = [p \in Proc |-> NoAddr]
    /\ user_exists = [p \in Proc |-> FALSE]
    /\ typed = [p \in Proc |-> NoneTyped]
    /\ timeouts = 0
    /\ files = WorkingDirectory
    /\ auth = [p \in Proc |-> IdleAuth]
    /\ settimeout = {SockOf(c) : c \in Clients}

InitChan ==
    /\ test \in {t \in [data : Payloads, is_binary : BOOLEAN, rate : Rates,
                          rrate : Rates] : t.is_binary \/ Decodable(t.data)}
    /\ sock = [a \in Addr |-> <<>>]
    /\ pc = [p \in Proc |-> IF p = "snd" THEN "call" ELSE "off"]
    /\ rs = [p \in Proc |-> IdleSend]
    /\ rr = [p \in Proc |-> IF p = "rcv" THEN NewRecv(test.rrate) ELSE IdleRecv]
    /\ sent = [p \in Proc |-> 0]
    /\ acked = [p \in Proc |-> 0]
    /\ InitServerIdle

(* The call: seq_num = random.randint(0, 10000), the packet, and into the loop. *)
Snd_Call ==
    /\ pc["snd"] = "call"
    /\ \E seq_num \in SeqNums :
         LoopHead("snd", NewSend(seq_num, "Q", test.data, test.is_binary, test.rate),
                  sock)
    /\ pc' = [pc EXCEPT !["snd"] = "sending"]
    /\ UNCHANGED <<rr, acked, test, srvVars, timeouts>>

SndNext ==
    \/ Snd_Call
    \/ RS_Recv("snd")
    \/ RS_Timeout("snd")

ChanNext == SndNext \/ RR_Recv("rcv")

SpecChan == InitChan /\ [][ChanNext]_vars

(* Each of the two threads keeps running while it has a step to take. *)
InitPair == InitChan /\ test.rrate = test.rate

FairChan == InitPair /\ [][ChanNext]_vars /\ WF_vars(SndNext) /\ WF_vars(RR_Recv("rcv"))

(* reliable_send has returned; reliable_recv has returned. *)
SendReturned == pc["snd"] = "sending" /\ rs["snd"].st = "idle"
RecvReturned == pc["snd"] = "sending" /\ rr["rcv"].st = "idle"

(* The same pair with a third party: datagrams of any content reach the
   sender's socket from an address that is not its peer's. *)
StrayData == {<<"x">>, <<xFF>>} \cup {IntToStr(n) : n \in SeqNums}

Stray ==
    /\ Len(sock["P"]) < MaxStray
    /\ \E data \in StrayData : sock' = sendto(sock, StrayAddr, "P", data)
    /\ UNCHANGED <<pc, rs, rr, sent, settimeout, acked, test, srvVars, timeouts>>

InitStray == InitChan /\ ~test.is_binary /\ test.data = <<"a">> /\ test.rrate = 0

StrayNext == ChanNext \/ Stray

SpecStray == InitStray /\ [][StrayNext]_vars

(* The sender and the receiver keep running; nothing is assumed of the third
   party. *)
FairStray == SpecStray /\ WF_vars(SndNext) /\ WF_vars(RR_Recv("rcv"))

----------------------------------------------------------------------------
(* The text the server and the client exchange. *)

InvalidUsername ==
    <<"I", "n", "v", "a", "l", "i", "d", " ", "u", "s", "e", "r", "n", "a", "m", "e">>
UsernameInUse ==
    <<"U", "s", "e", "r", "n", "a", "m", "e", " ", "i", "n", " ", "u", "s", "e">>
UsernameOK == <<"U", "s", "e", "r", "n", "a", "m", "e", " ", "O", "K">>
NewUser == <<"N", "e", "w", " ", "U", "s", "e", "r">>
Welcome == <<"W", "e", "l", "c", "o", "m", "e">>
InvalidPassword ==
    <<"I", "n", "v", "a", "l", "i", "d", " ", "P", "a", "s", "s", "w", "o", "r", "d">>
AccountCreated ==
    <<"A", "c", "c", "o", "u", "n", "t", " ", "C", "r", "e", "a", "t", "e", "d">>
AccountCreationFailed ==
    <<"A", "c", "c", "o", "u", "n", "t", " ", "c", "r", "e", "a", "t", "i", "o", "n",
      " ", "f", "a", "i", "l", "e", "d">>
Goodbye == <<"G", "o", "o", "d", "b", "y", "e">>
InvalidCommand ==
    <<"I", "n", "v", "a", "l", "i", "d", " ", "c", "o", "m", "m", "a", "n", "d">>
XIT == <<"X", "I", "T">>

LowerCase ==
    <<"a", "b", "c", "d", "e", "f", "g", "h", "i", "j", "k", "l", "m", "n", "o", "p", "q", "r", "s", "t", "u", "v", "w", "x", "y", "z">>
UpperCase ==
    <<"A", "B", "C", "D", "E", "F", "G", "H", "I", "J", "K", "L", "M", "N", "O", "P", "Q", "R", "S", "T", "U", "V", "W", "X", "Y", "Z">>

(* str.upper() *)
UpperChar(b) ==
    IF \E i \in 1..26 : LowerCase[i] = b
    THEN UpperCase[CHOOSE i \in 1..26 : LowerCase[i] = b]
    ELSE b
Upper(s) == [i \in 1..Len(s) |-> UpperChar(s[i])]

(* sub in s *)
Find(s, sub) ==
    \E i \in 1..(Len(s) - Len(sub) + 1) : SubSeq(s, i, i + Len(sub) - 1) = sub

(* s.split(" ", 1)[0] *)
FirstWord(s) == IF Contains(s, " ") THEN SubSeq(s, 1, IndexOf(s, " ") - 1) ELSE s

(* line.split(): the words of a line, split at runs of whitespace. *)
RECURSIVE Words(_)
Words(s) ==
    LET t == LStrip(s)
        ends == {i \in 1..Len(t) : t[i] \in Whitespace}
        n == IF ends = {} THEN Len(t)
             ELSE (CHOOSE i \in ends : \A j \in ends : i <= j) - 1
    IN  IF t = <<>> THEN <<>>
        ELSE <<SubSeq(t, 1, n)>> \o Words(SubSeq(t, n + 1, Len(t)))

(* The nonblank lines of credentials.txt. *)
NonBlank(lines) == SelectSeq(lines, LAMBDA l : Strip(l) # <<>>)

(* client_handler's reading of credentials.txt: line.split()[1] raises
   IndexError on a nonblank line of one word. *)
HandlerReadRaises(lines) ==
    \E i \in 1..Len(lines) : Strip(lines[i]) # <<>> /\ Len(Words(lines[i])) < 2

(* The dict either reading builds: the last line of a name wins;
   authenticate_user skips the lines of fewer than two words. *)
HasUser(lines, u) ==
    \E i \in 1..Len(lines) : Len(Words(lines[i])) >= 2 /\ Words(lines[i])[1] = u
PasswordOf(lines, u) ==
    LET is == {i \in 1..Len(lines) : Len(Words(lines[i])) >= 2 /\ Words(lines[i])[1] = u}
    IN  Words(lines[CHOOSE i \in is : \A j \in is : j <= i])[2]

(* authenticate_user(username, password, new_user): its value and the file
   it leaves. *)
authenticate_user(lines, u, pw, new_user) ==
    IF new_user
    THEN IF HasUser(lines, u) THEN [ok |-> FALSE, lines |-> lines]
         ELSE [ok |-> TRUE, lines |-> Append(lines, u \o <<" ">> \o pw)]
    ELSE [ok |-> HasUser(lines, u) /\ PasswordOf(lines, u) = pw, lines |-> lines]

----------------------------------------------------------------------------
(* The thread store: the files of the server's working directory, and one
   pass of client_handler's command loop over them. *)

(* The texts of client_handler's replies and of the lines it writes, and the
   command words it compares with. *)
Text ==
    [ TxtThread |->
          <<"T", "h", "r", "e", "a", "d", " ">>,
      TxtAlreadyExists |->
          <<" ", "a", "l", "r", "e", "a", "d", "y", " ", "e", "x", "i", "s", "t", "s">>,
      TxtCreated |->
          <<" ", "c", "r", "e", "a", "t", "e", "d", " ", "s", "u", "c", "c", "e", "s", "s",
          "f", "u", "l", "l", "y">>,
      TxtThreads |->
          <<"T", "h", "r", "e", "a", "d", "s", ":", "\n">>,
      NoThreads |->
          <<"N", "o", " ", "t", "h", "r", "e", "a", "d", "s", " ", "a", "v", "a", "i", "l",
          "a", "b", "l", "e">>,
      InvalidMessageFormat |->
          <<"I", "n", "v", "a", "l", "i", "d", " ", "m", "e", "s", "s", "a", "g", "e", " ",
          "f", "o", "r", "m", "a", "t", ".", " ", "U", "s", "e", ":", " ", "M", "S", "G",
          " ", "t", "h", "r", "e", "a", "d", "t", "i", "t", "l", "e", " ", "m", "e", "s",
          "s", "a", "g", "e">>,
      TxtDoesNotExist |->
          <<" ", "d", "o", "e", "s", " ", "n", "o", "t", " ", "e", "x", "i", "s", "t">>,
      TxtPostedTo |->
          <<"M", "e", "s", "s", "a", "g", "e", " ", "p", "o", "s", "t", "e", "d", " ", "t",
          "o", " ">>,
      TxtIsEmpty |->
          <<" ", "i", "s", " ", "e", "m", "p", "t", "y">>,
      InvalidDeleteFormat |->
          <<"I", "n", "v", "a", "l", "i", "d", " ", "d", "e", "l", "e", "t", "e", " ", "f",
          "o", "r", "m", "a", "t", ".", " ", "U", "s", "e", ":", " ", "D", "L", "T", " ",
          "t", "h", "r", "e", "a", "d", "t", "i", "t", "l", "e", " ", "m", "e", "s", "s",
          "a", "g", "e", "n", "u", "m", "b", "e", "r">>,
      InvalidMessageNumber |->
          <<"I", "n", "v", "a", "l", "i", "d", " ", "m", "e", "s", "s", "a", "g", "e", " ",
          "n", "u", "m", "b", "e", "r">>,
      TxtMessage |->
          <<"M", "e", "s", "s", "a", "g", "e", " ">>,
      TxtNotInThread |->
          <<" ", "d", "o", "e", "s", " ", "n", "o", "t", " ", "e", "x", "i", "s", "t", " ",
          "i", "n", " ", "t", "h", "r", "e", "a", "d", " ">>,
      OnlyDeleteOwn |->
          <<"Y", "o", "u", " ", "c", "a", "n", " ", "o", "n", "l", "y", " ", "d", "e", "l",
          "e", "t", "e", " ", "y", "o", "u", "r", " ", "o", "w", "n", " ", "m", "e", "s",
          "s", "a", "g", "e", "s">>,
      TxtDeletedFrom |->
          <<" ", "d", "e", "l", "e", "t", "e", "d", " ", "f", "r", "o", "m", " ">>,
      InvalidEditFormat |->
          <<"I", "n", "v", "a", "l", "i", "d", " ", "e", "d", "i", "t", " ", "f", "o", "r",
          "m", "a", "t", ".", " ", "U", "s", "e", ":", " ", "E", "D", "T", " ", "t", "h",
          "r", "e", "a", "d", "t", "i", "t", "l", "e", " ", "m", "e", "s", "s", "a", "g",
          "e", "n", "u", "m", "b", "e", "r", " ", "m", "e", "s", "s", "a", "g", "e">>,
      OnlyEditOwn |->
          <<"Y", "o", "u", " ", "c", "a", "n", " ", "o", "n", "l", "y", " ", "e", "d", "i",
          "t", " ", "y", "o", "u", "r", " ", "o", "w", "n", " ", "m", "e", "s", "s", "a",
          "g", "e", "s">>,
      TxtEditedIn |->
          <<" ", "e", "d", "i", "t", "e", "d", " ", "i", "n", " ">>,
      OnlyRemoveOwn |->
          <<"Y", "o", "u", " ", "c", "a", "n", " ", "o", "n", "l", "y", " ", "r", "e", "m",
          "o", "v", "e", " ", "t", "h", "r", "e", "a", "d", "s", " ", "y", "o", "u", " ",
          "c", "r", "e", "a", "t", "e", "d">>,
      TxtRemoved |->
          <<" ", "r", "e", "m", "o", "v", "e", "d">>,
      InvalidUploadFormat |->
          <<"I", "n", "v", "a", "l", "i", "d", " ", "u", "p", "l", "o", "a", "d", " ", "f",
          "o", "r", "m", "a", "t", ".", " ", "U", "s", "e", ":", " ", "U", "P", "D", " ",
          "t", "h", "r", "e", "a", "d", "t", "i", "t", "l", "e", " ", "f", "i", "l", "e",
          "n", "a", "m", "e">>,
      ReadyForTCP |->
          <<"R", "e", "a", "d", "y", " ", "f", "o", "r", " ", "T", "C", "P", " ", "t", "r",
          "a", "n", "s", "f", "e", "r">>,
      TxtFile |->
          <<"F", "i", "l", "e", " ">>,
      TxtUploaded |->
          <<" ", "u", "p", "l", "o", "a", "d", "e", "d", " ", "s", "u", "c", "c", "e", "s",
          "s", "f", "u", "l", "l", "y">>,
      TxtUploadedLine |->
          <<" ", "u", "p", "l", "o", "a", "d", "e", "d", " ">>,
      InvalidDownloadFormat |->
          <<"I", "n", "v", "a", "l", "i", "d", " ", "d", "o", "w", "n", "l", "o", "a", "d",
          " ", "f", "o", "r", "m", "a", "t", ".", " ", "U", "s", "e", ":", " ", "D", "W",
          "N", " ", "t", "h", "r", "e", "a", "d", "t", "i", "t", "l", "e", " ", "f", "i",
          "l", "e", "n", "a", "m", "e">>,
      TxtDownloaded |->
          <<" ", "d", "o", "w", "n", "l", "o", "a", "d", "e", "d", " ", "s", "u", "c", "c",
          "e", "s", "s", "f", "u", "l", "l", "y">>,
      CRT |->
          <<"C", "R", "T">>,
      LST |->
          <<"L", "S", "T">>,
      MSG |->
          <<"M", "S", "G">>,
      RDT |->
          <<"R", "D", "T">>,
      DLT |->
          <<"D", "L", "T">>,
      EDT |->
          <<"E", "D", "T">>,
      RMV |->
          <<"R", "M", "V">>,
      UPD |->
          <<"U", "P", "D">>,
      DWN |->
          <<"D", "W", "N">> ]

CREDENTIALS_FILE ==
    <<"c", "r", "e", "d", "e", "n", "t", "i", "a", "l", "s", ".", "t", "x", "t">>
ServerPy == <<"s", "e", "r", "v", "e", "r", ".", "p", "y">>
ClientPy == <<"c", "l", "i", "e", "n", "t", ".", "p", "y">>
SLASH == "/"

(* s.split(" ", 1) and s.split(" ", 2) *)
Split1(s) ==
    IF Contains(s, " ")
    THEN <<SubSeq(s, 1, IndexOf(s, " ") - 1), SubSeq(s, IndexOf(s, " ") + 1, Len(s))>>
    ELSE <<s>>
Split2(s) == LET p == Split1(s) IN IF Len(p) = 1 THEN p ELSE <<p[1]>> \o Split1(p[2])

(* s.startswith(prefix) *)
StartsWith(s, prefix) == Len(prefix) <= Len(s) /\ SubSeq(s, 1, Len(prefix)) = prefix

(* s.replace(old, new, 1) *)
ReplaceFirst(s, old, new) ==
    LET at == {i \in 1..(Len(s) - Len(old) + 1) : SubSeq(s, i, i + Len(old) - 1) = old}
        i == CHOOSE x \in at : \A y \in at : x <= y
    IN  IF at = {} THEN s
        ELSE SubSeq(s, 1, i - 1) \o new \o SubSeq(s, i + Len(old), Len(s))

(* str(n) of an integer *)
Str(n) == IF n < 0 THEN <<"-">> \o IntToStr(0 - n) ELSE IntToStr(n)

(* "".join(lines), every line with the newline it was written with. *)
RECURSIVE JoinLines(_)
JoinLines(lines) ==
    IF lines = <<>> THEN <<>> ELSE Head(lines) \o <<"\n">> \o JoinLines(Tail(lines))

(* "\n".join(names) *)
RECURSIVE JoinNames(_)
JoinNames(names) ==
    IF names = <<>> THEN <<>>
    ELSE IF Len(names) = 1 THEN Head(names)
    ELSE Head(names) \o <<"\n">> \o JoinNames(Tail(names))

(* os.path.exists, os.path.isfile, os.path.join *)
Exists(fs, path) == path \in DOMAIN fs
IsFile(fs, path) == path \in DOMAIN fs /\ ~fs[path].dir
Join(a, b) == IF b # <<>> /\ Head(b) = SLASH THEN b ELSE a \o <<SLASH>> \o b

(* The directory a path lies in: nothing for a name of the working directory. *)
DirName(path) ==
    LET at == {i \in 1..Len(path) : path[i] = SLASH}
    IN  IF at = {} THEN <<>>
        ELSE SubSeq(path, 1, (CHOOSE i \in at : \A j \in at : j <= i) - 1)

(* open(path, 'r') and open(path, 'w' or 'a') raise OSError: on a directory,
   on a file that is not there, on a name in a directory that is not there. *)
ReadRaises(fs, path) == ~IsFile(fs, path)
WriteRaises(fs, path) ==
    \/ path = <<>>
    \/ Exists(fs, path) /\ fs[path].dir
    \/ ~Exists(fs, path) /\ DirName(path) # <<>>
         /\ ~(Exists(fs, DirName(path)) /\ fs[DirName(path)].dir)

Put(fs, path, f) == [q \in DOMAIN fs \cup {path} |-> IF q = path THEN f ELSE fs[q]]
Unlink(fs, paths) == [q \in DOMAIN fs \ paths |-> fs[q]]

(* The walk the operating system makes along a path from the directory at
   (nothing: the working directory): ".." leaves a directory that must be
   there for its parent, "." and an empty name stay. ok is FALSE where the
   walk fails or leaves the working directory. *)
RECURSIVE Walk(_, _, _)
Walk(fs, at, rest) ==
    LET name == IF Contains(rest, SLASH) THEN SubSeq(rest, 1, IndexOf(rest, SLASH) - 1)
                ELSE rest
        more == IF Contains(rest, SLASH)
                THEN SubSeq(rest, IndexOf(rest, SLASH) + 1, Len(rest)) ELSE <<>>
        there == at = <<>> \/ (at \in DOMAIN fs /\ fs[at].dir)
    IN  IF rest = <<>> THEN [ok |-> TRUE, path |-> at]
        ELSE IF name \in {<<>>, <<".">>} THEN Walk(fs, at, more)
        ELSE IF name = <<".", ".">>
        THEN IF at = <<>> \/ ~there THEN [ok |-> FALSE, path |-> <<>>]
             ELSE Walk(fs, DirName(at), more)
        ELSE IF ~there THEN [ok |-> FALSE, path |-> <<>>]
        ELSE Walk(fs, IF at = <<>> THEN name ELSE at \o <<SLASH>> \o name, more)

(* The file that open(path) and os.path.exists(path) reach: the path itself
   unless it holds "..". *)
RealPath(fs, path) ==
    IF Find(path, <<".", ".">>) THEN Walk(fs, <<>>, path) ELSE [ok |-> TRUE, path |-> path]

(* with open(path, 'a') as f: f.write(line + "\n") *)
AppendLine(fs, path, line) ==
    Put(fs, path, File((IF Exists(fs, path) THEN fs[path].lines ELSE <<>>) \o <<line>>))

(* The names os.listdir() gives, in the directory's order. *)
RECURSIVE Listing(_)
Listing(S) ==
    IF S = {} THEN <<>>
    ELSE LET x == CHOOSE y \in S : TRUE IN <<x>> \o Listing(S \ {x})

get_thread_list(fs) ==
    Listing({p \in DOMAIN fs :
               /\ ~Contains(p, SLASH)
               /\ IsFile(fs, p)
               /\ ~StartsWith(p, <<".">>)
               /\ p \notin {ServerPy, ClientPy, CREDENTIALS_FILE}})

(* f"{msg_number} {username}: {message}" and f"{username} uploaded {filename}" *)
MsgLine(msg_number, user, message) ==
    Str(msg_number) \o <<" ">> \o user \o <<":", " ">> \o message
UploadLine(user, filename) == user \o Text.TxtUploadedLine \o filename

(* lines.pop(message_number) *)
Pop(lines, message_number) ==
    SubSeq(lines, 1, message_number) \o SubSeq(lines, message_number + 2, Len(lines))

(* The renumbering that is skipped. *)
NoRenumber(lines, message_number) == lines

(* for i in range(message_number, len(lines)): the first word of a line that
   holds a space gives way to i. *)
Renumber(lines, message_number) ==
    [j \in 1..Len(lines) |->
        IF j - 1 >= message_number /\ Strip(lines[j]) # <<>> /\ Contains(lines[j], " ")
        THEN ReplaceFirst(lines[j], Split1(lines[j])[1] \o <<" ">>,
                          IntToStr(j - 1) \o <<" ">>)
        ELSE lines[j]]

(* message_line.startswith(f"{message_number} {username}:") *)
OwnedBy(message_line, message_number, user) ==
    StartsWith(message_line, Str(message_number) \o <<" ">> \o user \o <<":">>)

(* What one pass of the command loop comes to: the files it leaves, the
   replies it sends in turn, whether it raises (on to the except clause),
   whether it leaves the loop, and whether its handler goes on to a TCP
   transfer after the reply. *)
Out(fs, replies) ==
    [fs |-> fs, replies |-> replies, raised |-> FALSE, exit |-> FALSE, tcp |-> FALSE]
Raised(fs, replies) == [Out(fs, replies) EXCEPT !.raised = TRUE]

NoSuchThread(thread_title) == Text.TxtThread \o thread_title \o Text.TxtDoesNotExist

(* CRT that writes the creator's line whether or not the title is taken. *)
CreateAnyway(fs, user, thread_title) ==
    Out(Put(fs, thread_title, File(<<user>>)),
        <<Text.TxtThread \o thread_title
            \o (IF Exists(fs, thread_title) THEN Text.TxtAlreadyExists ELSE Text.TxtCreated)>>)

(* CRT: l.238-256 *)
On_CRT(fs, user, thread_title) ==
    IF Exists(fs, thread_title)
    THEN Out(fs, <<Text.TxtThread \o thread_title \o Text.TxtAlreadyExists>>)
    ELSE IF WriteRaises(fs, thread_title) THEN Raised(fs, <<>>)
    ELSE Out(Put(fs, thread_title, File(<<user>>)),
             <<Text.TxtThread \o thread_title \o Text.TxtCreated>>)

(* LST: l.258-271 *)
On_LST(fs) ==
    IF get_thread_list(fs) # <<>>
    THEN Out(fs, <<Text.TxtThreads \o JoinNames(get_thread_list(fs))>>)
    ELSE Out(fs, <<Text.NoThreads>>)

(* MSG: l.273-308 *)
On_MSG(fs, user, arg) ==
    LET msg_parts == Split1(arg)
        thread_title == msg_parts[1]
        message == msg_parts[2]
    IN  IF Len(msg_parts) < 2 THEN Out(fs, <<Text.InvalidMessageFormat>>)
        ELSE IF ~Exists(fs, thread_title) THEN Out(fs, <<NoSuchThread(thread_title)>>)
        ELSE IF ReadRaises(fs, thread_title) THEN Raised(fs, <<>>)
        ELSE Out(AppendLine(fs, thread_title,
                            MsgLine(Len(fs[thread_title].lines), user, message)),
                 <<Text.TxtPostedTo \o thread_title>>)

(* RDT: l.310-335 *)
On_RDT(fs, thread_title) ==
    IF ~Exists(fs, thread_title) THEN Out(fs, <<NoSuchThread(thread_title)>>)
    ELSE IF ReadRaises(fs, thread_title) THEN Raised(fs, <<>>)
    ELSE IF Len(fs[thread_title].lines) <= 1
    THEN Out(fs, <<Text.TxtThread \o thread_title \o Text.TxtIsEmpty>>)
    ELSE Out(fs, <<Text.TxtThread \o thread_title \o <<":", "\n">>
                     \o JoinLines(Tail(fs[thread_title].lines))>>)

NoSuchMessage(message_number, thread_title) ==
    Text.TxtMessage \o Str(message_number) \o Text.TxtNotInThread \o thread_title

(* DLT: l.337-408 *)
On_DLT(fs, user, arg) ==
    LET dlt_parts == Split1(arg)
        thread_title == dlt_parts[1]
        number == PyInt(dlt_parts[2])
        message_number == number.val
        lines == fs[thread_title].lines
    IN  IF Len(dlt_parts) < 2 THEN Out(fs, <<Text.InvalidDeleteFormat>>)
        ELSE IF ~number.ok THEN Out(fs, <<Text.InvalidMessageNumber>>)
        ELSE IF ~Exists(fs, thread_title) THEN Out(fs, <<NoSuchThread(thread_title)>>)
        ELSE IF ReadRaises(fs, thread_title) THEN Raised(fs, <<>>)
        ELSE IF message_number <= 0 \/ message_number >= Len(lines)
        THEN Out(fs, <<NoSuchMessage(message_number, thread_title)>>)
        ELSE IF ~OwnedBy(lines[message_number + 1], message_number, user)
        THEN Out(fs, <<Text.OnlyDeleteOwn>>)
        ELSE Out(Put(fs, thread_title,
                     File(Renumber(Pop(lines, message_number), message_number))),
                 <<Text.TxtMessage \o Str(message_number) \o Text.TxtDeletedFrom \o thread_title>>)

(* EDT: l.410-475 *)
On_EDT(fs, user, arg) ==
    LET remaining == Split2(arg)
        thread_title == remaining[1]
        number == PyInt(remaining[2])
        message_number == number.val
        new_message == remaining[3]
        lines == fs[thread_title].lines
    IN  IF Len(remaining) < 3 THEN Out(fs, <<Text.InvalidEditFormat>>)
        ELSE IF ~number.ok THEN Out(fs, <<Text.InvalidMessageNumber>>)
        ELSE IF ~Exists(fs, thread_title) THEN Out(fs, <<NoSuchThread(thread_title)>>)
        ELSE IF ReadRaises(fs, thread_title) THEN Raised(fs, <<>>)
        ELSE IF message_number <= 0 \/ message_number >= Len(lines)
        THEN Out(fs, <<NoSuchMessage(message_number, thread_title)>>)
        ELSE IF ~OwnedBy(lines[message_number + 1], message_number, user)
        THEN Out(fs, <<Text.OnlyEditOwn>>)
        ELSE Out(Put(fs, thread_title,
                     File([lines EXCEPT ![message_number + 1] =
                               MsgLine(message_number, user, new_message)])),
                 <<Text.TxtMessage \o Str(message_number) \o Text.TxtEditedIn \o thread_title>>)

(* RMV: l.477-513 *)
On_RMV(fs, user, thread_title) ==
    LET creator == IF fs[thread_title].lines = <<>> THEN <<>>
                   ELSE Strip(Head(fs[thread_title].lines))
        thread_upload_dir == Join(UPLOAD_DIR, thread_title)
        inside == {p \in DOMAIN fs : DirName(p) = thread_upload_dir}
    IN  IF ~Exists(fs, thread_title) THEN Out(fs, <<NoSuchThread(thread_title)>>)
        ELSE IF ReadRaises(fs, thread_title) THEN Raised(fs, <<>>)
        ELSE IF creator # user THEN Out(fs, <<Text.OnlyRemoveOwn>>)
        ELSE IF ~Exists(fs, thread_upload_dir)
        THEN Out(Unlink(fs, {thread_title}), <<Text.TxtThread \o thread_title \o Text.TxtRemoved>>)
        ELSE IF ~fs[thread_upload_dir].dir \/ \E p \in inside : fs[p].dir
        THEN Raised(Unlink(fs, {thread_title}), <<>>)
        ELSE Out(Unlink(fs, {thread_title, thread_upload_dir} \cup inside),
                 <<Text.TxtThread \o thread_title \o Text.TxtRemoved>>)

(* UPD up to the TCP transfer: l.515-547 *)
On_UPD(fs, arg) ==
    LET upd_parts == Split1(arg)
        thread_title == upd_parts[1]
        thread_upload_dir == Join(UPLOAD_DIR, thread_title)
    IN  IF Len(upd_parts) < 2 THEN Out(fs, <<Text.InvalidUploadFormat>>)
        ELSE IF ~Exists(fs, thread_title) THEN Out(fs, <<NoSuchThread(thread_title)>>)
        ELSE [Out(IF Exists(fs, thread_upload_dir) THEN fs
                  ELSE Put(fs, thread_upload_dir, Dir),
                  <<Text.ReadyForTCP>>) EXCEPT !.tcp = TRUE]

(* The lines of a file's bytes. *)
RECURSIVE SplitLines(_)
SplitLines(bytes) ==
    IF bytes = <<>> THEN <<>>
    ELSE IF Contains(bytes, "\n")
    THEN <<SubSeq(bytes, 1, IndexOf(bytes, "\n") - 1)>>
         \o SplitLines(SubSeq(bytes, IndexOf(bytes, "\n") + 1, Len(bytes)))
    ELSE <<bytes>>

(* UPD once the file has come over TCP as bytes: l.567-589 *)
Uploaded(fs, user, arg, bytes) ==
    LET upd_parts == Split1(arg)
        thread_title == upd_parts[1]
        filename == upd_parts[2]
        file_path == RealPath(fs, Join(Join(UPLOAD_DIR, thread_title), filename))
        saved == Put(fs, file_path.path, File(SplitLines(bytes)))
    IN  IF ~file_path.ok \/ WriteRaises(fs, file_path.path) THEN Raised(fs, <<>>)
        ELSE IF WriteRaises(saved, thread_title) THEN Raised(saved, <<>>)
        ELSE Out(AppendLine(saved, thread_title, UploadLine(user, filename)),
                 <<Text.TxtFile \o filename \o Text.TxtUploaded>>)

(* DWN up to the TCP transfer: l.591-628 *)
On_DWN(fs, arg) ==
    LET dwn_parts == Split1(arg)
        thread_title == dwn_parts[1]
        filename == dwn_parts[2]
        file_path == RealPath(fs, Join(Join(UPLOAD_DIR, thread_title), filename))
    IN  IF Len(dwn_parts) < 2 THEN Out(fs, <<Text.InvalidDownloadFormat>>)
        ELSE IF ~Exists(fs, thread_title) THEN Out(fs, <<NoSuchThread(thread_title)>>)
        ELSE IF ~(file_path.ok /\ Exists(fs, file_path.path))
        THEN Out(fs, <<Text.TxtFile \o filename \o Text.TxtNotInThread \o thread_title>>)
        ELSE [Out(fs, <<Text.ReadyForTCP \o <<BAR>>
                          \o Str(Len(JoinLines(fs[file_path.path].lines)))>>)
                 EXCEPT !.tcp = TRUE]

(* DWN once the file has gone over TCP: l.645-666 *)
Downloaded(fs, arg) ==
    LET dwn_parts == Split1(arg)
        file_path == RealPath(fs, Join(Join(UPLOAD_DIR, dwn_parts[1]), dwn_parts[2]))
    IN  IF ~file_path.ok \/ ReadRaises(fs, file_path.path) THEN Raised(fs, <<>>)
        ELSE Out(fs, <<Text.TxtFile \o dwn_parts[2] \o Text.TxtDownloaded>>)

(* The dispatcher: l.215-673, XIT's registry update apart. *)
Dispatch(fs, user, cmd) ==
    LET parts == Split1(Strip(cmd))
        command == Upper(parts[1])
        more == Len(parts) > 1
    IN  IF cmd = <<>> THEN Out(fs, <<>>)
        ELSE IF command = XIT THEN [Out(fs, <<Goodbye>>) EXCEPT !.exit = TRUE]
        ELSE IF command = Text.CRT /\ more THEN On_CRT(fs, user, parts[2])
        ELSE IF command = Text.LST THEN On_LST(fs)
        ELSE IF command = Text.MSG /\ more THEN On_MSG(fs, user, parts[2])
        ELSE IF command = Text.RDT /\ more THEN On_RDT(fs, parts[2])
        ELSE IF command = Text.DLT /\ more THEN On_DLT(fs, user, parts[2])
        ELSE IF command = Text.EDT /\ more THEN On_EDT(fs, user, parts[2])
        ELSE IF command = Text.RMV /\ more THEN On_RMV(fs, user, parts[2])
        ELSE IF command = Text.UPD /\ more THEN On_UPD(fs, parts[2])
        ELSE IF command = Text.DWN /\ more THEN On_DWN(fs, parts[2])
        ELSE Out(fs, <<InvalidCommand>>)

(* The pass with its TCP transfer, if it has one, carried through. *)
Transferred(fs, user, cmd, bytes) ==
    LET parts == Split1(Strip(cmd))
    IN  IF Upper(parts[1]) = Text.UPD THEN Uploaded(fs, user, parts[2], bytes)
        ELSE Downloaded(fs, parts[2])

(* f.write(text) at the position pos of a file opened 'r+': the bytes there
   are overwritten. *)
WriteAt(lines, pos, text) ==
    LET bytes == JoinLines(lines)
    IN  SplitLines(SubSeq(bytes, 1, pos) \o text
                   \o SubSeq(bytes, pos + Len(text) + 1, Len(bytes)))

(* cmd_data.decode('utf-8', errors='replace') *)
DecodeReplace(data) == [i \in 1..Len(data) |-> IF data[i] = xFF THEN "\\ufffd" ELSE data[i]]

----------------------------------------------------------------------------
(* The server: main()'s acceptor and the session workers it starts. *)

(* reliable_send(sock, addr, data, packet_loss_rate=packet_loss_rate), called
   by p: main() starts the workers with the default rate 0.0, and the client
   never passes one. *)
CallSend(p, to, data) ==
    \E seq_num \in (IF p \in Clients THEN Draws(ClientSamples) ELSE SeqNums) :
        LoopHead(p, NewSend(seq_num, to, data, FALSE, 0), sock)

(* reliable_recv(sock, packet_loss_rate), called by p. *)
CallRecv(p) ==
    /\ rr' = [rr EXCEPT ![p] = NewRecv(0)]
    /\ acked' = [acked EXCEPT ![p] = 0]

(* p goes on after a reliable_send, whose result it does not look at. *)
Drop(p) == rs' = [rs EXCEPT ![p] = IdleSend]

(* data, addr = udp_sock.recvfrom(BUFFER_SIZE); a thread runs client_handler,
   which starts in reliable_recv.  The datagram itself is dropped, and the
   handler does not read the client_addr it is given. *)
Accept ==
    /\ pc["main"] = "accept"
    /\ CanRead("main")
    /\ sock' = [sock EXCEPT !["S"] = Tail(@)]
    /\ pc' = [pc EXCEPT ![WorkerSeq[Started + 1]] = "recv_user"]
    /\ rr' = [rr EXCEPT ![WorkerSeq[Started + 1]] = NewRecv(0)]
    /\ UNCHANGED <<rs, sent, settimeout, acked, test, srvVars, timeouts>>

(* The loop left by the exception. *)
AcceptorStops(exception) == "stopped"

(* udp_sock.recvfrom raises socket.timeout once a worker's reliable_send has
   set a timeout on the socket they share: except Exception (l.710-711) logs
   it and the loop goes round. *)
AcceptorCatches(exception) == "accept"

Accept_Timeout ==
    /\ pc["main"] = "accept"
    /\ "S" \in settimeout
    /\ sock["S"] = <<>>
    /\ pc' = [pc EXCEPT !["main"] = AcceptorCatches("socket.timeout")]
    /\ UNCHANGED <<sock, rs, rr, sent, settimeout, acked, test, srvVars, timeouts>>

(* username = data.strip(); an empty one is answered "Invalid username". *)
H_User(w) ==
    /\ pc[w] = "recv_user" /\ Ready(w)
    /\ username' = [username EXCEPT ![w] = Strip(rr[w].data)]
    /\ addr' = [addr EXCEPT ![w] = rr[w].addr]
    /\ rr' = [rr EXCEPT ![w] = IdleRecv]
    /\ IF Strip(rr[w].data) = <<>>
       THEN /\ CallSend(w, rr[w].addr, InvalidUsername)
            /\ pc' = [pc EXCEPT ![w] = "reject_send"]
       ELSE /\ pc' = [pc EXCEPT ![w] = "lock_check"]
            /\ UNCHANGED <<sock, rs, sent, settimeout>>
    /\ UNCHANGED <<acked, test, logged_users, threads_lock, credentials, files, auth, user_exists,
                   typed, timeouts>>

(* with threads_lock: a username in logged_users is answered "Username in
   use", the lock held over the send.  Otherwise the lock is released,
   credentials.txt is read, and the client is asked for the password of an
   existing or of a new account. *)
H_Check(w) ==
    /\ pc[w] = "lock_check" /\ threads_lock = NoProc
    /\ IF username[w] \in logged_users
       THEN /\ threads_lock' = w
            /\ CallSend(w, addr[w], UsernameInUse)
            /\ pc' = [pc EXCEPT ![w] = "inuse_send"]
            /\ UNCHANGED user_exists
       ELSE IF HandlerReadRaises(credentials)
       THEN /\ pc' = [pc EXCEPT ![w] = "finally"]
            /\ UNCHANGED <<sock, rs, sent, settimeout, threads_lock, user_exists>>
       ELSE /\ user_exists' = [user_exists EXCEPT ![w] = HasUser(credentials, username[w])]
            /\ CallSend(w, addr[w],
                        IF HasUser(credentials, username[w]) THEN UsernameOK ELSE NewUser)
            /\ pc' = [pc EXCEPT ![w] = "prompt_send"]
            /\ UNCHANGED threads_lock
    /\ UNCHANGED <<rr, acked, test, logged_users, credentials, files, auth, username, addr, typed,
                   timeouts>>

(* The run's record of the workers that returned after a rejection, without
   having authenticated. *)
Rejected(w) == [test EXCEPT !.rejected = @ \cup {w}]

(* return, out of the with block: the lock is released. *)
H_InUseSent(w) ==
    /\ pc[w] = "inuse_send" /\ Ready(w)
    /\ threads_lock' = NoProc
    /\ Drop(w)
    /\ pc' = [pc EXCEPT ![w] = "finally"]
    /\ test' = Rejected(w)
    /\ UNCHANGED <<sock, rr, sent, settimeout, acked, logged_users, credentials, files, auth, username,
                   addr, user_exists, typed, timeouts>>

(* password, addr, _ = reliable_recv(sock, packet_loss_rate) *)
H_Prompted(w) ==
    /\ pc[w] = "prompt_send" /\ Ready(w)
    /\ Drop(w)
    /\ CallRecv(w)
    /\ pc' = [pc EXCEPT ![w] = "recv_pass"]
    /\ UNCHANGED <<sock, sent, settimeout, test, srvVars, timeouts>>

(* authenticate_user() on the password received.  For an account that
   exists: the file is read and "Welcome" or "Invalid Password" is sent.  For
   a new one, with open(CREDENTIALS_FILE, 'r+'): the lines are read, which
   leaves the file position at their end; a name found among them is answered
   "Account creation failed"; otherwise the record is still to be written. *)
H_Pass(w) ==
    /\ pc[w] = "recv_pass" /\ Ready(w)
    /\ IF user_exists[w]
       THEN LET ok == authenticate_user(credentials, username[w], rr[w].data, FALSE).ok
            IN  /\ CallSend(w, rr[w].addr, IF ok THEN Welcome ELSE InvalidPassword)
                /\ pc' = [pc EXCEPT ![w] = IF ok THEN "welcome_send" ELSE "reject_send"]
                /\ UNCHANGED auth
       ELSE IF HasUser(credentials, username[w])
       THEN /\ CallSend(w, rr[w].addr, AccountCreationFailed)
            /\ pc' = [pc EXCEPT ![w] = "reject_send"]
            /\ UNCHANGED auth
       ELSE /\ auth' = [auth EXCEPT ![w] = [st |-> "write", password |-> rr[w].data,
                                             pos |-> Len(JoinLines(credentials))]]
            /\ pc' = [pc EXCEPT ![w] = "auth_write"]
            /\ UNCHANGED <<sock, rs, sent, settimeout>>
    /\ addr' = [addr EXCEPT ![w] = rr[w].addr]
    /\ rr' = [rr EXCEPT ![w] = IdleRecv]
    /\ UNCHANGED <<acked, test, logged_users, threads_lock, credentials, username,
                   user_exists, typed, timeouts, files>>

(* f.write(f"{username} {password}\n") at the position the reading left, and
   "Account Created". *)
H_Write(w) ==
    /\ pc[w] = "auth_write"
    /\ credentials' = WriteAt(credentials, auth[w].pos,
                              username[w] \o <<" ">> \o auth[w].password \o <<"\n">>)
    /\ auth' = [auth EXCEPT ![w] = IdleAuth]
    /\ CallSend(w, addr[w], AccountCreated)
    /\ pc' = [pc EXCEPT ![w] = "welcome_send"]
    /\ test' = [test EXCEPT !.accounts = @ \cup {<<username[w], auth[w].password>>}]
    /\ UNCHANGED <<rr, acked, logged_users, threads_lock, username, addr,
                   user_exists, typed, timeouts, files>>

(* with threads_lock: logged_users.add(username); then the command loop's
   first reliable_recv. *)
H_Add(w) ==
    /\ pc[w] = "welcome_send" /\ Ready(w) /\ threads_lock = NoProc
    /\ logged_users' = logged_users \cup {username[w]}
    /\ Drop(w)
    /\ CallRecv(w)
    /\ pc' = [pc EXCEPT ![w] = "recv_cmd"]
    /\ UNCHANGED <<sock, sent, settimeout, test, threads_lock, credentials, files, auth, username, addr,
                   user_exists, typed, timeouts>>

(* command = cmd.strip().split(" ", 1)[0].upper() *)
Verb(cmd) == Upper(FirstWord(Strip(cmd)))

(* One pass of the command loop: an empty datagram is skipped, XIT goes for
   the lock, a handler that raises leaves for the except clause, and any other
   sends its reply. *)
H_Cmd(w) ==
    /\ pc[w] = "recv_cmd" /\ Ready(w)
    /\ addr' = [addr EXCEPT ![w] = rr[w].addr]
    /\ LET cmd == IF rr[w].is_binary THEN DecodeReplace(rr[w].data) ELSE rr[w].data
           d == Dispatch(files, username[w], cmd)
       IN  /\ files' = d.fs
           /\ IF d.exit
              THEN /\ pc' = [pc EXCEPT ![w] = "lock_xit"]
                   /\ rr' = [rr EXCEPT ![w] = IdleRecv]
                   /\ UNCHANGED <<sock, rs, sent, settimeout, acked>>
              ELSE IF d.raised
              THEN /\ pc' = [pc EXCEPT ![w] = "finally"]
                   /\ rr' = [rr EXCEPT ![w] = IdleRecv]
                   /\ UNCHANGED <<sock, rs, sent, settimeout, acked>>
              ELSE IF d.replies = <<>>
              THEN /\ CallRecv(w)
                   /\ UNCHANGED <<pc, sock, rs, sent, settimeout>>
              ELSE /\ CallSend(w, rr[w].addr, d.replies[1])
                   /\ pc' = [pc EXCEPT ![w] = IF d.tcp THEN "ready_send" ELSE "reply_send"]
                   /\ rr' = [rr EXCEPT ![w] = IdleRecv]
                   /\ UNCHANGED acked
    /\ UNCHANGED <<test, logged_users, threads_lock, credentials, auth, username,
                   user_exists, typed, timeouts>>

(* The test that guards a removal left out. *)
Unguarded(users, name) == TRUE

(* if username in logged_users *)
InRegistry(users, name) == name \in users

(* logged_users.remove(username): KeyError on a name that is not there. *)
SetRemove(users, name) == [users |-> users \ {name}, raised |-> name \notin users]

(* if username in logged_users: logged_users.remove(username) *)
Release(users, name) ==
    IF InRegistry(users, name) THEN SetRemove(users, name)
    ELSE [users |-> users, raised |-> FALSE]

(* XIT: with threads_lock: logged_users.remove(username) if it is there; then
   "Goodbye" is sent. *)
H_Xit(w) ==
    /\ pc[w] = "lock_xit" /\ threads_lock = NoProc
    /\ logged_users' = Release(logged_users, username[w]).users
    /\ IF Release(logged_users, username[w]).raised
       THEN /\ pc' = [pc EXCEPT ![w] = "finally"]
            /\ UNCHANGED <<sock, rs, sent, settimeout>>
       ELSE /\ CallSend(w, addr[w], Goodbye)
            /\ pc' = [pc EXCEPT ![w] = "goodbye_send"]
    /\ UNCHANGED <<rr, acked, test, threads_lock, credentials, files, auth, username, addr,
                   user_exists, typed, timeouts>>

(* The reply is sent: the loop reads on; after "Ready for TCP transfer" the
   handler waits in tcp_sock.accept() for the client to connect. *)
H_Replied(w) ==
    /\ pc[w] \in {"reply_send", "ready_send"} /\ Ready(w)
    /\ Drop(w)
    /\ IF pc[w] = "reply_send"
       THEN /\ CallRecv(w)
            /\ pc' = [pc EXCEPT ![w] = "recv_cmd"]
       ELSE /\ pc' = [pc EXCEPT ![w] = "tcp_accept"]
            /\ UNCHANGED <<rr, acked>>
    /\ UNCHANGED <<sock, sent, settimeout, test, srvVars, timeouts>>

(* return after a rejection, break after "Goodbye": on to the finally block. *)
H_Return(w) ==
    /\ pc[w] \in {"reject_send", "goodbye_send"} /\ Ready(w)
    /\ Drop(w)
    /\ pc' = [pc EXCEPT ![w] = "finally"]
    /\ test' = IF pc[w] = "reject_send" THEN Rejected(w) ELSE test
    /\ UNCHANGED <<sock, rr, sent, settimeout, acked, srvVars, timeouts>>

(* finally: with threads_lock: if username in logged_users: remove it.  An
   exception here would end the thread with it unhandled. *)
H_Finally(w) ==
    /\ pc[w] = "finally" /\ threads_lock = NoProc
    /\ logged_users' = Release(logged_users, username[w]).users
    /\ pc' = [pc EXCEPT ![w] = IF Release(logged_users, username[w]).raised
                               THEN "crashed" ELSE "done"]
    /\ UNCHANGED <<sock, rs, rr, sent, settimeout, acked, test, threads_lock, credentials, files, auth,
                   username, addr, user_exists, typed, timeouts>>

WorkerNext(w) ==
    \/ H_User(w) \/ H_Check(w) \/ H_InUseSent(w) \/ H_Prompted(w) \/ H_Pass(w)
    \/ H_Write(w)
    \/ H_Add(w) \/ H_Cmd(w) \/ H_Xit(w) \/ H_Replied(w) \/ H_Return(w)
    \/ H_Finally(w)
    \/ RS_Recv(w) \/ RS_Timeout(w) \/ RR_Recv(w)

----------------------------------------------------------------------------
(* The client: ForumClient.authenticate() and the command loop of run(). *)

(* What a client types at the username prompt: the usernames of the run. *)
Usernames(c) == test.usernames[c]
(* What is typed at a password prompt: the passwords of the run; "Create a
   password: " accepts the empty line as "Enter password: " does. *)
Passwords == test.passwords
(* What is typed at the command prompt: the commands of the run. *)
Commands == test.commands

(* username = input(...).strip(); self.reliable_send(username) *)
C_User(c) ==
    /\ pc[c] = "ask_user"
    /\ Quiet
    /\ typed[c].logins < MaxLogins
    /\ \E u \in Usernames(c) :
         /\ Strip(u) # <<>>
         /\ username' = [username EXCEPT ![c] = Strip(u)]
         /\ CallSend(c, "S", Strip(u))
    /\ typed' = [typed EXCEPT ![c].logins = @ + 1]
    /\ pc' = [pc EXCEPT ![c] = "user_send"]
    /\ UNCHANGED <<rr, acked, test, logged_users, threads_lock, credentials, files, auth, addr,
                   user_exists, timeouts>>

(* The send is over, whatever it returned: response = self.reliable_recv() *)
C_Sent(c) ==
    /\ pc[c] \in {"user_send", "pass_send_old", "pass_send_new", "cmd_send", "xit_send"}
    /\ Ready(c)
    /\ Drop(c)
    /\ CallRecv(c)
    /\ pc' = [pc EXCEPT ![c] = CASE pc[c] = "user_send" -> "user_resp"
                                 [] pc[c] = "pass_send_old" -> "pass_resp_old"
                                 [] pc[c] = "pass_send_new" -> "pass_resp_new"
                                 [] pc[c] = "cmd_send" -> "cmd_resp"
                                 [] pc[c] = "xit_send" -> "xit_resp"]
    /\ UNCHANGED <<sock, sent, settimeout, test, srvVars, timeouts>>

(* except socket.timeout: return None *)
RR_Timeout(c) ==
    /\ rr[c].st = "recv"
    /\ Quiet
    /\ timeouts < MaxTimeouts
    /\ timeouts' = timeouts + 1
    /\ rr' = [rr EXCEPT ![c] = [IdleRecv EXCEPT !.none = TRUE]]
    /\ UNCHANGED <<sock, pc, rs, sent, settimeout, acked, test, srvVars>>

(* The response as the client compares it: None equals no text. *)
Is(r, text) == ~r.none /\ ~r.is_binary /\ r.data = text

(* The branches of authenticate() on the response to the username. *)
C_UserResp(c) ==
    /\ pc[c] = "user_resp" /\ Ready(c)
    /\ pc' = [pc EXCEPT ![c] =
                IF Is(rr[c], UsernameInUse) \/ Is(rr[c], InvalidUsername) THEN "ask_user"
                ELSE IF Is(rr[c], UsernameOK) THEN "ask_pass_old"
                ELSE IF Is(rr[c], NewUser) THEN "ask_pass_new"
                ELSE "ask_user"]
    /\ rr' = [rr EXCEPT ![c] = IdleRecv]
    /\ UNCHANGED <<sock, rs, sent, settimeout, acked, test, srvVars, timeouts>>

(* password = input(...).strip(); self.reliable_send(password) *)
TypePassword(c) ==
    /\ pc[c] \in {"ask_pass_old", "ask_pass_new"}
    /\ \E pw \in Passwords : CallSend(c, "S", Strip(pw))
    /\ pc' = [pc EXCEPT ![c] = IF pc[c] = "ask_pass_old" THEN "pass_send_old"
                               ELSE "pass_send_new"]
    /\ UNCHANGED <<rr, acked, test, srvVars, timeouts>>

(* The password typed once the exchange has gone quiet. *)
C_Pass(c) == Quiet /\ TypePassword(c)

(* The password typed at any moment, also while the server is at work for
   another client. *)
C_PassAnyTime(c) == TypePassword(c)

(* login_response == "Welcome"; "Account Created" in str(create_response) *)
C_PassResp(c) ==
    /\ pc[c] \in {"pass_resp_old", "pass_resp_new"} /\ Ready(c)
    /\ pc' = [pc EXCEPT ![c] =
                IF pc[c] = "pass_resp_old"
                THEN (IF Is(rr[c], Welcome) THEN "cmd" ELSE "ask_user")
                ELSE (IF ~rr[c].none /\ rr[c].data # <<>>
                         /\ Find(rr[c].data, AccountCreated)
                      THEN "cmd" ELSE "ask_user")]
    /\ rr' = [rr EXCEPT ![c] = IdleRecv]
    /\ UNCHANGED <<sock, rs, sent, settimeout, acked, test, srvVars, timeouts>>

(* The commands other than XIT typed so far at the clients of S. *)
RECURSIVE CmdsTyped(_)
CmdsTyped(S) ==
    IF S = {} THEN 0
    ELSE LET c == CHOOSE x \in S : TRUE IN typed[c].cmds + CmdsTyped(S \ {c})

(* command = input(...).strip(); self.reliable_send(command) *)
C_Cmd(c) ==
    /\ pc[c] = "cmd"
    /\ Quiet
    /\ \E command \in Commands :
         /\ Strip(command) # <<>>
         /\ Upper(Strip(command)) # XIT => CmdsTyped(Clients) < MaxCmds
         /\ CallSend(c, "S", Strip(command))
         /\ typed' = [typed EXCEPT ![c].cmds =
                        IF Upper(Strip(command)) = XIT THEN @ ELSE @ + 1,
                                   ![c].command = Strip(command)]
         /\ pc' = [pc EXCEPT ![c] = IF Upper(Strip(command)) = XIT THEN "xit_send"
                                    ELSE "cmd_send"]
    /\ UNCHANGED <<rr, acked, test, logged_users, threads_lock, credentials, files, auth, username,
                   addr, user_exists, timeouts>>

(* if command.upper() == "XIT": break *)
C_CmdResp(c) ==
    /\ pc[c] \in {"cmd_resp", "xit_resp"} /\ Ready(c)
    /\ pc' = [pc EXCEPT ![c] = IF pc[c] = "xit_resp" THEN "closed" ELSE "cmd"]
    /\ rr' = [rr EXCEPT ![c] = IdleRecv]
    /\ UNCHANGED <<sock, rs, sent, settimeout, acked, test, srvVars, timeouts>>

ClientNext(c) ==
    \/ C_User(c) \/ C_Sent(c) \/ C_UserResp(c) \/ C_Pass(c) \/ C_PassResp(c)
    \/ C_Cmd(c) \/ C_CmdResp(c)
    \/ RS_Recv(c) \/ RS_Timeout(c) \/ RR_Recv(c) \/ RR_Timeout(c)

(* credentials.txt before the server starts: one account. *)
CredentialFiles == {<< <<"u", " ", "p">> >>}

(* No account yet: credentials.txt is empty. *)
NoAccounts == {<<>>}

(* Every client logs in as "u". *)
OneName == [c \in Clients |-> {<<"u">>}]

InitWith(passwords, commands, credential_files, usernames) ==
    /\ test = [data |-> <<>>, is_binary |-> FALSE, rate |-> 0, rrate |-> 0,
               passwords |-> passwords, commands |-> commands, usernames |-> usernames,
               rejected |-> {}, accounts |-> {}]
    /\ sock = [a \in Addr |-> <<>>]
    /\ pc = [p \in Proc |-> IF p = "main" THEN "accept"
                            ELSE IF p \in Clients THEN "ask_user" ELSE "off"]
    /\ rs = [p \in Proc |-> IdleSend]
    /\ rr = [p \in Proc |-> IdleRecv]
    /\ sent = [p \in Proc |-> 0]
    /\ acked = [p \in Proc |-> 0]
    /\ logged_users = {}
    /\ threads_lock = NoProc
    /\ credentials \in credential_files
    /\ username = [p \in Proc |-> <<>>]
    /\ addr = [p \in Proc |-> NoAddr]
    /\ user_exists = [p \in Proc |-> FALSE]
    /\ typed = [p \in Proc |-> NoneTyped]
    /\ timeouts = 0
    /\ files = WorkingDirectory
    /\ auth = [p \in Proc |-> IdleAuth]
    /\ settimeout = {SockOf(c) : c \in Clients}

(* XIT, an unknown command, and RDT of the uploads directory, whose open()
   raises IsADirectoryError. *)
InitServer ==
    InitWith({<<"p">>}, {XIT, <<"?">>, Text.RDT \o <<" ">> \o UPLOAD_DIR}, CredentialFiles,
             OneName)

(* The first runs against a server that has no account: the password is "p"
   or the empty line. *)
InitSignup == InitWith({<<"p">>, <<>>}, {XIT}, NoAccounts, OneName)

ServerNext ==
    \/ Accept
    \/ Accept_Timeout
    \/ \E w \in Workers : WorkerNext(w)
    \/ \E c \in Clients : ClientNext(c)

SpecServer == InitServer /\ [][ServerNext]_vars

SpecSignup == InitSignup /\ [][ServerNext]_vars

(* Two users who sign up at the same time: no account yet, the password "p",
   and no assumption on when a password is typed. Every reply a client waits
   for arrives in these runs, so its reliable_recv does not time out. *)
InitRace == InitWith({<<"p">>}, {XIT}, NoAccounts, OneName)

(* Two users with an account each, at one client each: cA logs in as "u", cB
   as "v". *)
TwoAccounts == {<< <<"u", " ", "p">>, <<"v", " ", "p">> >>}
TwoNames == [c \in Clients |-> IF c = "cA" THEN {<<"u">>} ELSE {<<"v">>}]
InitTwo == InitWith({<<"p">>}, {XIT}, TwoAccounts, TwoNames)

(* The steps of these runs: no name is in use when it is typed, so "Username
   in use" is never sent, and every reply a client waits for arrives, so its
   reliable_recv does not time out. *)
TwoNext ==
    \/ Accept
    \/ Accept_Timeout
    \/ \E w \in Workers :
         \/ H_User(w) \/ H_Check(w) \/ H_Prompted(w) \/ H_Pass(w) \/ H_Write(w)
         \/ H_Add(w) \/ H_Cmd(w) \/ H_Xit(w) \/ H_Replied(w) \/ H_Return(w)
         \/ H_Finally(w)
         \/ RS_Recv(w) \/ RS_Timeout(w) \/ RR_Recv(w)
    \/ \E c \in Clients :
         \/ C_User(c) \/ C_Sent(c) \/ C_UserResp(c) \/ C_Pass(c) \/ C_PassResp(c)
         \/ C_Cmd(c) \/ C_CmdResp(c)
         \/ RS_Recv(c) \/ RS_Timeout(c) \/ RR_Recv(c)

SpecTwo == InitTwo /\ [][TwoNext]_vars

(* One session over a network that delays datagrams: the client cA has
   logged in as "u", its worker w1 is in the command loop, the thread t of "u"
   exists, and cA types one MSG.  UDP keeps no order: a datagram on its way to
   a socket may be held back (test.held) while later ones arrive, and is
   delivered afterwards; the runs hold back at most MaxHeld datagrams, one at
   a time. *)
MaxHeld == 2       \* datagrams the network holds back in one run

InitRepeat ==
    /\ test = [data |-> <<>>, is_binary |-> FALSE, rate |-> 0, rrate |-> 0,
               passwords |-> {<<"p">>},
               commands |-> {Text.MSG \o <<" ", "t", " ", "x">>},
               usernames |-> OneName, rejected |-> {}, accounts |-> {}, held |-> <<>>,
               holds |-> 0]
    /\ sock = [a \in Addr |-> <<>>]
    /\ pc = [p \in Proc |-> IF p = "cA" THEN "cmd"
                            ELSE IF p = "w1" THEN "recv_cmd" ELSE "off"]
    /\ rs = [p \in Proc |-> IdleSend]
    /\ rr = [p \in Proc |-> IF p = "w1" THEN NewRecv(0) ELSE IdleRecv]
    /\ sent = [p \in Proc |-> 0]
    /\ acked = [p \in Proc |-> 0]
    /\ logged_users = {<<"u">>}
    /\ threads_lock = NoProc
    /\ credentials \in CredentialFiles
    /\ username = [p \in Proc |-> IF p \in {"cA", "w1"} THEN <<"u">> ELSE <<>>]
    /\ addr = [p \in Proc |-> IF p = "w1" THEN "A" ELSE NoAddr]
    /\ user_exists = [p \in Proc |-> p = "w1"]
    /\ typed = [p \in Proc |-> IF p = "cA" THEN [NoneTyped EXCEPT !.logins = 1]
                               ELSE NoneTyped]
    /\ timeouts = 0
    /\ files = Put(WorkingDirectory, <<"t">>, File(<<<<"u">>>>))
    /\ auth = [p \in Proc |-> IdleAuth]
    /\ settimeout = {"A", "S"}

(* The network holds back the datagram that would be the next to arrive at
   the socket bound to a. *)
Hold(a) ==
    /\ test.holds < MaxHeld /\ test.held = <<>>
    /\ sock[a] # <<>>
    /\ sock' = [sock EXCEPT ![a] = Tail(@)]
    /\ test' = [test EXCEPT !.held = <<[to |-> a, datagram |-> Head(sock[a])]>>,
                            !.holds = @ + 1]
    /\ UNCHANGED <<pc, rs, rr, sent, settimeout, acked, srvVars, timeouts>>

(* The datagram held back arrives. *)
Deliver ==
    /\ test.held # <<>>
    /\ sock' = sendto(sock, test.held[1].datagram.src, test.held[1].to,
                      test.held[1].datagram.data)
    /\ test' = [test EXCEPT !.held = <<>>]
    /\ UNCHANGED <<pc, rs, rr, sent, settimeout, acked, srvVars, timeouts>>

RepeatNext ==
    \/ Hold("A") \/ Hold("S") \/ Deliver
    \/ H_Cmd("w1") \/ H_Replied("w1")
    \/ RS_Recv("w1") \/ RS_Timeout("w1") \/ RR_Recv("w1")
    \/ C_Cmd("cA") \/ C_Sent("cA") \/ C_CmdResp("cA")
    \/ RS_Recv("cA") \/ RS_Timeout("cA") \/ RR_Recv("cA") \/ RR_Timeout("cA")

SpecRepeat == InitRepeat /\ [][RepeatNext]_vars

RaceNext ==
    \/ Accept
    \/ Accept_Timeout
    \/ \E w \in Workers : WorkerNext(w)
    \/ \E c \in Clients :
         \/ C_User(c) \/ C_Sent(c) \/ C_UserResp(c) \/ C_PassAnyTime(c) \/ C_PassResp(c)
         \/ C_Cmd(c) \/ C_CmdResp(c)
         \/ RS_Recv(c) \/ RS_Timeout(c) \/ RR_Recv(c)

SpecRace == InitRace /\ [][RaceNext]_vars

----------------------------------------------------------------------------
(* The thread store by itself: the commands of authenticated sessions, handled
   one at a time by the command loop, TCP transfers included. *)

StoreUsers == {<<"a">>, <<"a", ":", "b">>}
StoreCommands ==
    {Text.CRT \o <<" ", "t">>,
     Text.MSG \o <<" ", "t", " ", "x">>,
     Text.MSG \o <<" ", "t", " ", "y">>,
     Text.DLT \o <<" ", "t", " ", "1">>,
     Text.DLT \o <<" ", "t", " ", "2">>,
     Text.EDT \o <<" ", "t", " ", "1", " ", "y">>,
     Text.EDT \o <<" ", "t", " ", "2", " ", "y">>,
     Text.UPD \o <<" ", "t", " ", "f">>}

(* One pass of the command loop, l.213-673, for the command cmd of user; an
   upload brings bytes. *)
Pass(fs, user, cmd, bytes) ==
    LET d == Dispatch(fs, user, cmd)
        e == Transferred(d.fs, user, cmd, bytes)
    IN  IF d.tcp THEN [e EXCEPT !.replies = d.replies \o @] ELSE d

(* The titles with the users whose CRT was answered "created" and no RMV
   answered "removed" since, as the replies tell. *)
Made(created, user, cmd, replies) ==
    LET parts == Split1(Strip(cmd))
        title == parts[2]
    IN  IF Len(parts) < 2 THEN created
        ELSE IF Upper(parts[1]) = Text.CRT
                /\ replies = <<Text.TxtThread \o title \o Text.TxtCreated>>
        THEN created \cup {<<title, user>>}
        ELSE IF Upper(parts[1]) = Text.RMV
                /\ replies = <<Text.TxtThread \o title \o Text.TxtRemoved>>
        THEN {p \in created : p[1] # title}
        ELSE created

(* The files with the threads they were uploaded under, as the replies tell:
   <<title, filename, purged>>, purged once an RMV of the thread was
   answered "removed" and until the file is uploaded again. *)
Kept(uploaded, cmd, replies) ==
    LET parts == Split1(Strip(cmd))
        title == Split1(parts[2])[1]
        filename == Split1(parts[2])[2]
    IN  IF Len(parts) < 2 THEN uploaded
        ELSE IF Upper(parts[1]) = Text.UPD /\ Len(replies) = 2
                /\ replies[2] = Text.TxtFile \o filename \o Text.TxtUploaded
        THEN {u \in uploaded : <<u[1], u[2]>> # <<title, filename>>}
                 \cup {<<title, filename, FALSE>>}
        ELSE IF Upper(parts[1]) = Text.RMV
                /\ replies = <<Text.TxtThread \o parts[2] \o Text.TxtRemoved>>
        THEN {<<u[1], u[2], u[3] \/ u[1] = parts[2]>> : u \in uploaded}
        ELSE uploaded

InitStore ==
    /\ test = [user |-> <<>>, cmd |-> <<>>, replies |-> <<>>, raised |-> FALSE,
               created |-> {}, uploaded |-> {}]
    /\ sock = [a \in Addr |-> <<>>]
    /\ pc = [p \in Proc |-> "off"]
    /\ rs = [p \in Proc |-> IdleSend]
    /\ rr = [p \in Proc |-> IdleRecv]
    /\ sent = [p \in Proc |-> 0]
    /\ acked = [p \in Proc |-> 0]
    /\ InitServerIdle

CommandLoop(users, commands, contents, lines) ==
    \E user \in users, cmd \in commands, bytes \in contents :
        \E d \in {Pass(files, user, cmd, bytes)} :
            /\ \A p \in DOMAIN d.fs : Len(d.fs[p].lines) <= lines
            /\ files' = d.fs
            /\ test' = [user |-> user, cmd |-> cmd, replies |-> d.replies,
                        raised |-> d.raised,
                        created |-> Made(test.created, user, cmd, d.replies),
                        uploaded |-> Kept(test.uploaded, cmd, d.replies)]
            /\ UNCHANGED <<sock, pc, rs, rr, sent, acked, logged_users, threads_lock,
                           credentials, username, addr, user_exists, typed, timeouts,
                           auth, settimeout>>

Store_Cmd == CommandLoop(StoreUsers, StoreCommands, {<<>>}, MaxLines)

SpecStore == InitStore /\ [][Store_Cmd]_vars

(* The store's titles: threads made, posted to, read, listed and removed,
   files uploaded under them, file names that lead out of the upload
   directory. *)
TitleUsers == {<<"a">>, <<"b">>}
TitleCommands ==
    {Text.CRT \o <<" ", "t">>,
     Text.CRT \o <<" ", ".", "t">>,
     Text.RMV \o <<" ", "t">>,
     Text.MSG \o <<" ", "t", " ", "x">>,
     Text.RDT \o <<" ", "t">>,
     Text.LST,
     Text.UPD \o <<" ", "t", " ", "f">>,
     Text.UPD \o <<" ", "t", " ", ".", ".", "/", "f">>,
     Text.UPD \o <<" ", "t", " ", ".", ".", "/", ".", ".", "/", "t">>,
     Text.DWN \o <<" ", "t", " ", "f">>,
     Text.DWN \o <<" ", "t", " ", ".", ".", "/", "f">>}
TitleContents == {<<"b", "\n">>}
MaxTitleLines == 2

Title_Cmd == CommandLoop(TitleUsers, TitleCommands, TitleContents, MaxTitleLines)

SpecTitles == InitStore /\ [][Title_Cmd]_vars

----------------------------------------------------------------------------
(* The commands that are refused: malformed ones, ones that name a thread, a
   message or a file that is not there, and ones on what another user owns,
   among the commands that bring a thread, a message and a file about. *)

ReplyCommands ==
    {Text.CRT \o <<" ", "t">>,
     Text.MSG \o <<" ", "t", " ", "x">>,
     Text.MSG \o <<" ", "t">>,
     Text.RDT \o <<" ", "t">>,
     Text.DLT \o <<" ", "t", " ", "1">>,
     Text.DLT \o <<" ", "t", " ", "x">>,
     Text.DLT \o <<" ", "t">>,
     Text.EDT \o <<" ", "t", " ", "1", " ", "y">>,
     Text.EDT \o <<" ", "t", " ", "1">>,
     Text.RMV \o <<" ", "t">>,
     Text.UPD \o <<" ", "t", " ", "f">>,
     Text.UPD \o <<" ", "t">>,
     Text.DWN \o <<" ", "t", " ", "f">>,
     Text.DWN \o <<" ", "t">>,
     <<"?">>}

Reply_Cmd == CommandLoop(TitleUsers, ReplyCommands, TitleContents, MaxTitleLines)

SpecReplies == InitStore /\ [][Reply_Cmd]_vars

----------------------------------------------------------------------------
(* Two sessions at the store at once: the workers w1 and w2, threads of one
   process, each in its command loop. A CRT is two steps of its worker, the
   test of os.path.exists and the open(thread_title, 'w'), and the other
   worker runs between them; the store's lock is not taken (l.238-256). *)

CreateWorkers == {"w1", "w2"}
CreateTitle == <<"t">>
CreateCommands == {Text.MSG \o <<" ">> \o CreateTitle \o <<" ", "x">>}

InitCreate ==
    /\ test = [user |-> <<>>, cmd |-> <<>>, replies |-> <<>>, raised |-> FALSE,
               created |-> {}, uploaded |-> {}]
    /\ sock = [a \in Addr |-> <<>>]
    /\ pc = [p \in Proc |-> IF p \in CreateWorkers THEN "recv_cmd" ELSE "off"]
    /\ rs = [p \in Proc |-> IdleSend]
    /\ rr = [p \in Proc |-> IdleRecv]
    /\ sent = [p \in Proc |-> 0]
    /\ acked = [p \in Proc |-> 0]
    /\ logged_users = {<<"a">>, <<"b">>}
    /\ threads_lock = NoProc
    /\ credentials = <<<<"a", " ", "p">>, <<"b", " ", "p">>>>
    /\ username = [p \in Proc |-> IF p = "w1" THEN <<"a">>
                                   ELSE IF p = "w2" THEN <<"b">> ELSE <<>>]
    /\ addr = [p \in Proc |-> NoAddr]
    /\ user_exists = [p \in Proc |-> p \in CreateWorkers]
    /\ typed = [p \in Proc |-> NoneTyped]
    /\ timeouts = 0
    /\ files = WorkingDirectory
    /\ auth = [p \in Proc |-> IdleAuth]
    /\ settimeout = {}

(* What a step of a session leaves of the rest of the state. *)
SessionStep(w, cmd, replies, raised) ==
    /\ test' = [user |-> username[w], cmd |-> cmd, replies |-> replies,
                raised |-> raised,
                created |-> Made(test.created, username[w], cmd, replies),
                uploaded |-> Kept(test.uploaded, cmd, replies)]
    /\ UNCHANGED <<sock, rs, rr, sent, acked, logged_users, threads_lock, credentials,
                   username, addr, user_exists, typed, timeouts, auth, settimeout>>

(* CRT up to the test: l.238-247 *)
Crt_Exists(w) ==
    /\ pc[w] = "recv_cmd"
    /\ IF Exists(files, CreateTitle)
       THEN /\ SessionStep(w, Text.CRT \o <<" ">> \o CreateTitle,
                           <<Text.TxtThread \o CreateTitle \o Text.TxtAlreadyExists>>, FALSE)
            /\ UNCHANGED <<pc, files>>
       ELSE /\ pc' = [pc EXCEPT ![w] = "crt_open"]
            /\ UNCHANGED <<test, files, sock, rs, rr, sent, acked, logged_users,
                           threads_lock, credentials, username, addr, user_exists,
                           typed, timeouts, auth, settimeout>>

(* CRT from the open on: l.248-256 *)
Crt_Open(w) ==
    /\ pc[w] = "crt_open"
    /\ pc' = [pc EXCEPT ![w] = "recv_cmd"]
    /\ files' = Put(files, CreateTitle, File(<<username[w]>>))
    /\ SessionStep(w, Text.CRT \o <<" ">> \o CreateTitle,
                   <<Text.TxtThread \o CreateTitle \o Text.TxtCreated>>, FALSE)

(* Another command, handled in one step. *)
Crt_Other(w) ==
    /\ pc[w] = "recv_cmd"
    /\ \E cmd \in CreateCommands :
         \E d \in {Pass(files, username[w], cmd, <<>>)} :
            /\ \A p \in DOMAIN d.fs : Len(d.fs[p].lines) <= MaxLines
            /\ files' = d.fs
            /\ SessionStep(w, cmd, d.replies, d.raised)
    /\ UNCHANGED pc

CreateNext == \E w \in CreateWorkers : Crt_Exists(w) \/ Crt_Open(w) \/ Crt_Other(w)

SpecCreate == InitCreate /\ [][CreateNext]_vars

----------------------------------------------------------------------------
(* Two sessions that post to, delete from and edit one thread at once. MSG,
   DLT and EDT each read the thread file into the handler's local lines and
   write later, and the other worker runs between the two; the store has no
   lock.  test.lines[w] and test.cmd[w] are the local lines and the command of
   a worker between its read and its write; test.posted[w] counts the messages
   for which w's session was sent "Message posted to t", less those it was
   sent "deleted" for; test.passes[w] counts the commands w has taken. *)

MaxPasses == 2     \* commands of one session in a run of concurrent posting

PostCommands ==
    {Text.MSG \o <<" ">> \o CreateTitle \o <<" ", "x">>,
     Text.DLT \o <<" ">> \o CreateTitle \o <<" ", "1">>,
     Text.DLT \o <<" ">> \o CreateTitle \o <<" ", "2">>,
     Text.EDT \o <<" ">> \o CreateTitle \o <<" ", "1", " ", "y">>}

(* The thread t, created by "a", and the two sessions in their command loops. *)
InitPost ==
    /\ test = [lines |-> [w \in CreateWorkers |-> <<>>],
               cmd |-> [w \in CreateWorkers |-> <<>>],
               posted |-> [w \in CreateWorkers |-> 0],
               passes |-> [w \in CreateWorkers |-> 0],
               replies |-> <<>>]
    /\ sock = [a \in Addr |-> <<>>]
    /\ pc = [p \in Proc |-> IF p \in CreateWorkers THEN "recv_cmd" ELSE "off"]
    /\ rs = [p \in Proc |-> IdleSend]
    /\ rr = [p \in Proc |-> IdleRecv]
    /\ sent = [p \in Proc |-> 0]
    /\ acked = [p \in Proc |-> 0]
    /\ logged_users = {<<"a">>, <<"b">>}
    /\ threads_lock = NoProc
    /\ credentials = <<<<"a", " ", "p">>, <<"b", " ", "p">>>>
    /\ username = [p \in Proc |-> IF p = "w1" THEN <<"a">>
                                   ELSE IF p = "w2" THEN <<"b">> ELSE <<>>]
    /\ addr = [p \in Proc |-> NoAddr]
    /\ user_exists = [p \in Proc |-> p \in CreateWorkers]
    /\ typed = [p \in Proc |-> NoneTyped]
    /\ timeouts = 0
    /\ files = Put(WorkingDirectory, CreateTitle, File(<<<<"a">>>>))
    /\ auth = [p \in Proc |-> IdleAuth]
    /\ settimeout = {}

(* The count of posted messages after a pass that sent replies. *)
Posted(n, replies) ==
    IF replies = <<Text.TxtPostedTo \o CreateTitle>> THEN n + 1
    ELSE IF replies # <<>> /\ Find(replies[1], Text.TxtDeletedFrom) THEN n - 1
    ELSE n

(* The handler up to and with lines = f.readlines() (l.294-295, l.365-366,
   l.440-441): a command that is refused is answered here. *)
Post_Read(w) ==
    /\ pc[w] = "recv_cmd"
    /\ test.passes[w] < MaxPasses
    /\ \E cmd \in PostCommands :
         \E d \in {Dispatch(files, username[w], cmd)} :
            IF d.fs = files
            THEN /\ test' = [test EXCEPT !.replies = d.replies, !.passes[w] = @ + 1]
                 /\ UNCHANGED pc
            ELSE /\ test' = [test EXCEPT !.lines[w] = files[CreateTitle].lines,
                                         !.cmd[w] = cmd, !.replies = <<>>,
                                         !.passes[w] = @ + 1]
                 /\ pc' = [pc EXCEPT ![w] = "post_write"]
    /\ UNCHANGED <<files, sock, rs, rr, sent, acked, logged_users, threads_lock,
                   credentials, username, addr, user_exists, typed, timeouts, auth,
                   settimeout>>

(* The handler from its local lines on: MSG appends the line numbered
   len(lines) to the file as it is now (open 'a', l.298-302); DLT and EDT
   write their lines over the file (open 'w', l.398-399, l.465-466). *)
Post_Write(w) ==
    /\ pc[w] = "post_write"
    /\ \E d \in {Dispatch(Put(files, CreateTitle, File(test.lines[w])), username[w],
                          test.cmd[w])} :
         /\ files' = IF Verb(test.cmd[w]) = Text.MSG
                     THEN AppendLine(files, CreateTitle, Last(d.fs[CreateTitle].lines))
                     ELSE Put(files, CreateTitle, d.fs[CreateTitle])
         /\ Len(files'[CreateTitle].lines) <= MaxLines
         /\ test' = [test EXCEPT !.lines[w] = <<>>, !.cmd[w] = <<>>,
                                 !.posted[w] = Posted(@, d.replies),
                                 !.replies = d.replies]
    /\ pc' = [pc EXCEPT ![w] = "recv_cmd"]
    /\ UNCHANGED <<sock, rs, rr, sent, acked, logged_users, threads_lock,
                   credentials, username, addr, user_exists, typed, timeouts, auth,
                   settimeout>>

PostNext == \E w \in CreateWorkers : Post_Read(w) \/ Post_Write(w)

SpecPost == InitPost /\ [][PostNext]_vars

----------------------------------------------------------------------------
(* The bytes of one file on their way: from the client's file over the TCP
   connection of an UPD into the server's file, and from there over the
   connection of a DWN into a client's file. A stream hands the receiver, at
   each recv, some of the bytes that have arrived, at most BUFFER_SIZE of
   them; the connection is taken as made.

   test.content  the client's file            test.unsent  what is left to send
   test.up       sent and not yet received    test.closed  the sender has closed
   test.stored   the server's file            test.unread  what is left to read
   test.down     sent back, not yet received  test.saved   the downloaded file *)

MaxContent == 4
EOF == <<"E", "O", "F">>
Contents == SeqsUpTo({"E", "O", "F"}, MaxContent)

InitBulk ==
    /\ test \in {[content |-> b, unsent |-> b, up |-> <<>>, closed |-> FALSE,
                  stored |-> <<>>, unread |-> <<>>, down |-> <<>>, saved |-> <<>>,
                  at |-> "upload"] : b \in Contents}
    /\ sock = [a \in Addr |-> <<>>]
    /\ pc = [p \in Proc |-> "off"]
    /\ rs = [p \in Proc |-> IdleSend]
    /\ rr = [p \in Proc |-> IdleRecv]
    /\ sent = [p \in Proc |-> 0]
    /\ acked = [p \in Proc |-> 0]
    /\ InitServerIdle

Bulk(next) ==
    /\ test' = next
    /\ UNCHANGED <<sock, pc, rs, rr, sent, acked, logged_users, threads_lock, credentials,
                   username, addr, user_exists, typed, timeouts, files, auth, settimeout>>

(* f.read(BUFFER_SIZE) and sendall(data), at either end *)
ReadSize(bytes) == IF Len(bytes) < BUFFER_SIZE THEN Len(bytes) ELSE BUFFER_SIZE

(* upload_file: data = f.read(BUFFER_SIZE); tcp_sock.sendall(data) *)
Upd_Sendall ==
    /\ test.at = "upload" /\ test.unsent # <<>>
    /\ Bulk([test EXCEPT !.up = @ \o SubSeq(test.unsent, 1, ReadSize(test.unsent)),
                         !.unsent = SubSeq(@, ReadSize(@) + 1, Len(@))])

(* upload_file: tcp_sock.close() *)
Upd_Close ==
    /\ test.at = "upload" /\ test.unsent = <<>> /\ ~test.closed
    /\ Bulk([test EXCEPT !.closed = TRUE])

(* UPD: data = client_sock.recv(BUFFER_SIZE); if not data or data == b'EOF':
   break; f.write(data). After the break the sockets are closed and the
   confirmation is sent. *)
Upd_Recv ==
    /\ test.at = "upload" /\ test.up # <<>>
    /\ \E n \in 1..ReadSize(test.up) :
         LET data == SubSeq(test.up, 1, n)
         IN  IF data = EOF THEN Bulk([test EXCEPT !.at = "stored"])
             ELSE Bulk([test EXCEPT !.stored = @ \o data,
                                    !.up = SubSeq(@, n + 1, Len(@))])

Upd_RecvEnd ==
    /\ test.at = "upload" /\ test.up = <<>> /\ test.closed
    /\ Bulk([test EXCEPT !.at = "stored"])

(* DWN: open(file_path, 'rb') *)
Dwn_Open ==
    /\ test.at = "stored"
    /\ Bulk([test EXCEPT !.at = "download", !.unread = test.stored])

(* DWN: data = f.read(BUFFER_SIZE); client_sock.sendall(data) *)
Dwn_Sendall ==
    /\ test.at = "download" /\ test.unread # <<>>
    /\ Bulk([test EXCEPT !.down = @ \o SubSeq(test.unread, 1, ReadSize(test.unread)),
                         !.unread = SubSeq(@, ReadSize(@) + 1, Len(@))])

(* download_file: data = tcp_sock.recv(BUFFER_SIZE); f.write(data) *)
Dwn_Recv ==
    /\ test.at = "download" /\ test.down # <<>>
    /\ \E n \in 1..ReadSize(test.down) :
         Bulk([test EXCEPT !.saved = @ \o SubSeq(test.down, 1, n),
                           !.down = SubSeq(@, n + 1, Len(@))])

(* download_file: if not data: break, the server having closed *)
Dwn_RecvEnd ==
    /\ test.at = "download" /\ test.down = <<>> /\ test.unread = <<>>
    /\ Bulk([test EXCEPT !.at = "done"])

BulkNext ==
    \/ Upd_Sendall \/ Upd_Close \/ Upd_Recv \/ Upd_RecvEnd
    \/ Dwn_Open \/ Dwn_Sendall \/ Dwn_Recv \/ Dwn_RecvEnd

SpecBulk == InitBulk /\ [][BulkNext]_vars

----------------------------------------------------------------------------
(* The handoff from datagrams to a TCP connection, for two sessions that
   upload at once: worker w1 serves client cA, worker w2 client cB, and every
   worker listens on the one port of the server (l.549-557).

   test.listener  the worker whose socket listens on the port, or nobody
   test.backlog   the clients connected to it and not yet accepted
   test.peer[w]   the client whose connection w's accept returned
   test.from[w]   the client whose bytes w wrote to its session's file *)

HandoffWorkers == {"w1", "w2"}
OwnClient(w) == IF w = "w1" THEN "cA" ELSE "cB"
OwnWorker(c) == IF c = "cA" THEN "w1" ELSE "w2"

InitHandoff ==
    /\ test = [listener |-> NoProc, backlog |-> <<>>,
               peer |-> [w \in HandoffWorkers |-> NoProc],
               from |-> [w \in HandoffWorkers |-> NoProc]]
    /\ sock = [a \in Addr |-> <<>>]
    /\ pc = [p \in Proc |-> IF p \in HandoffWorkers THEN "recv_cmd"
                            ELSE IF p \in Clients THEN "prompt" ELSE "off"]
    /\ rs = [p \in Proc |-> IdleSend]
    /\ rr = [p \in Proc |-> IdleRecv]
    /\ sent = [p \in Proc |-> 0]
    /\ acked = [p \in Proc |-> 0]
    /\ InitServerIdle

Handoff(next, at) ==
    /\ test' = next
    /\ pc' = at
    /\ UNCHANGED <<sock, rs, rr, sent, acked, logged_users, threads_lock, credentials,
                   username, addr, user_exists, typed, timeouts, files, auth, settimeout>>

(* upload_file: reliable_send(f"UPD {thread_title} {filename}"), and the
   worker's reading of it; one upload a client. *)
T_Upd(c) ==
    /\ pc[c] = "prompt" /\ pc[OwnWorker(c)] = "recv_cmd"
    /\ Handoff(test, [pc EXCEPT ![c] = "ready_recv", ![OwnWorker(c)] = "ready_send"])

(* UPD: reliable_send(sock, addr, "Ready for TCP transfer"), its result not
   looked at (l.544-547); the client's reliable_recv returns the reply, or
   None at its timeout, and upload_file returns on None (client l.158-162). *)
T_Ready(w) ==
    /\ pc[w] = "ready_send"
    /\ \E received \in BOOLEAN :
         Handoff(test, [pc EXCEPT ![w] = "tcp_bind",
                                  ![OwnClient(w)] = IF received THEN "tcp_connect"
                                                    ELSE "gave_up"])

(* UPD: tcp_sock.bind(('0.0.0.0', port)); tcp_sock.listen(1): OSError
   (address in use) while another socket listens on the port, and the
   handler's except and finally end the worker (l.553-557, l.675-681). *)
T_Listen(w) ==
    /\ pc[w] = "tcp_bind"
    /\ IF test.listener = NoProc
       THEN Handoff([test EXCEPT !.listener = w], [pc EXCEPT ![w] = "tcp_accept"])
       ELSE Handoff(test, [pc EXCEPT ![w] = "raised"])

(* upload_file: tcp_sock.connect((SERVER_IP, port)): refused while no socket
   listens; upload_file prints the error and returns (client l.166-167,
   l.184-185). *)
T_Connect(c) ==
    /\ pc[c] = "tcp_connect"
    /\ IF test.listener # NoProc
       THEN Handoff([test EXCEPT !.backlog = Append(@, c)], [pc EXCEPT ![c] = "tcp_send"])
       ELSE Handoff(test, [pc EXCEPT ![c] = "refused"])

(* upload_file: the file sent, tcp_sock.close(), then reliable_recv() for
   the confirmation (client l.170-181). *)
T_Sent(c) ==
    /\ pc[c] = "tcp_send"
    /\ Handoff(test, [pc EXCEPT ![c] = "confirm_recv"])

(* UPD: client_sock, client_addr = tcp_sock.accept(), with no timeout and no
   look at client_addr (l.564). *)
T_Accept(w) ==
    /\ pc[w] = "tcp_accept" /\ test.listener = w /\ test.backlog # <<>>
    /\ Handoff([test EXCEPT !.peer[w] = Head(test.backlog), !.backlog = Tail(@)],
               [pc EXCEPT ![w] = "tcp_recv"])

(* UPD: the bytes read until the peer has closed and written to file_path,
   client_sock.close(), tcp_sock.close() (l.567-577): the connections still
   waiting at the listener go with it. *)
T_Recv(w) ==
    /\ pc[w] = "tcp_recv" /\ pc[test.peer[w]] \notin {"tcp_send"}
    /\ Handoff([test EXCEPT !.from[w] = test.peer[w], !.listener = NoProc,
                            !.backlog = <<>>],
               [pc EXCEPT ![w] = "confirm_send"])

(* UPD: the thread file's line and reliable_send(f"File {filename} uploaded
   successfully") (l.579-586), then the next command. *)
T_Confirm(w) ==
    /\ pc[w] = "confirm_send"
    /\ Handoff(test, [pc EXCEPT ![w] = "recv_cmd",
                                ![OwnClient(w)] = IF @ = "confirm_recv" THEN "done" ELSE @])

HandoffNext ==
    \/ \E c \in Clients : T_Upd(c) \/ T_Connect(c) \/ T_Sent(c)
    \/ \E w \in HandoffWorkers :
         T_Ready(w) \/ T_Listen(w) \/ T_Accept(w) \/ T_Recv(w) \/ T_Confirm(w)

SpecHandoff == InitHandoff /\ [][HandoffNext]_vars

(* Every thread of the server and every client keeps running: a step that
   stays possible is taken. *)
FairHandoff ==
    /\ SpecHandoff
    /\ \A c \in Clients :
         WF_vars(T_Upd(c)) /\ WF_vars(T_Connect(c)) /\ WF_vars(T_Sent(c))
    /\ \A w \in HandoffWorkers :
         /\ WF_vars(T_Ready(w)) /\ WF_vars(T_Listen(w)) /\ WF_vars(T_Accept(w))
         /\ WF_vars(T_Recv(w)) /\ WF_vars(T_Confirm(w))

----------------------------------------------------------------------------
(* Worker w is authenticated and in its command loop. *)
InLoop(w) == pc[w] \in {"recv_cmd", "reply_send", "ready_send", "tcp_accept", "lock_xit"}

(* C1: at no reachable state are two session workers in the command loop
   under the same username. *)
C1_OneSessionPerUser ==
    \A v, w \in Workers : (v # w /\ InLoop(v) /\ InLoop(w)) => username[v] # username[w]

(* C2: a username is in logged_users if and only if some session worker is in
   its command loop authenticated under it. *)
C2_RegistryTracksSessions ==
    /\ \A u \in logged_users : \E w \in Workers : InLoop(w) /\ username[w] = u
    /\ \A w \in Workers : InLoop(w) => username[w] \in logged_users

(* C8: two session workers that are in reliable_send at the same time have
   frames of different sequence numbers, so that no acknowledgment fits both. *)
C8_DistinctSeqNums ==
    \A v, w \in Workers :
        (v # w /\ InSend(v) /\ InSend(w)) => rs[v].seq_num # rs[w].seq_num

(* The acceptor takes a datagram in this step; worker w's reliable_recv
   returns one in this step. *)
Accepting == pc["main"] = "accept" /\ \E w \in Workers : pc[w] = "off" /\ pc'[w] # "off"
Receiving(w) == rr[w].st = "recv" /\ rr'[w].st = "idle"

(* C9: a step in which the acceptor or a worker's reliable_recv takes a frame
   from the server's socket sends the frame's sequence number back to the
   frame's source. *)
C9_EveryFrameAcked ==
    [][(Accepting \/ \E w \in Workers : Receiving(w)) =>
         /\ ParseFrame(Head(sock["S"]).data).ack
         /\ sock' = sendto([sock EXCEPT !["S"] = Tail(@)], "S", Head(sock["S"]).src,
                           ParseFrame(Head(sock["S"]).data).seq)]_vars

(* C11: the step in which a session worker leaves its finally block ends the
   worker without an exception and leaves its username out of logged_users,
   whether the worker came there by XIT, which has removed the name already,
   or by an exception in the command loop. *)
C11_ReleasedOnExit ==
    [][\A w \in Workers :
          (pc[w] = "finally" /\ pc'[w] # "finally") =>
              (pc'[w] = "done" /\ username[w] \notin logged_users')]_vars

C11_Witness ==
    \E w \in Workers, c \in Clients :
        /\ pc[w] = "done" /\ pc[c] = "closed"
        /\ username[w] = username[c] /\ username[w] \notin logged_users

----------------------------------------------------------------------------
(* C12: a session worker comes to send "Welcome" or "Account Created", the
   replies that lead to the command loop, only in a step after which
   credentials.txt holds a record of its username: the record whose password
   is the frame received, for a username that was found, or the record just
   written, for a username that was not; and a worker enters the command loop
   from nowhere but that reply. *)
C12_AuthenticatedFirst ==
    [][\A w \in Workers :
          /\ (pc[w] # "welcome_send" /\ pc'[w] = "welcome_send") =>
                /\ HasUser(credentials', username[w])
                /\ user_exists[w] => PasswordOf(credentials, username[w]) = rr[w].data
          /\ (~InLoop(w) /\ InLoop(w)') => pc[w] = "welcome_send"]_vars

(* Worker w has answered "Account Created": it wrote the record itself. *)
Created(w) == ~user_exists[w] /\ (pc[w] = "welcome_send" \/ InLoop(w))

(* C13: credentials.txt never holds two records of one username, and no two
   session workers have answered "Account Created" for the same username. *)
C13_UniqueRecords ==
    /\ \A i, j \in 1..Len(credentials) :
          (/\ Len(Words(credentials[i])) >= 2 /\ Len(Words(credentials[j])) >= 2
           /\ Words(credentials[i])[1] = Words(credentials[j])[1]) => i = j
    /\ \A v, w \in Workers :
          (v # w /\ Created(v) /\ Created(w)) => username[v] # username[w]

(* C14: the step in which a session worker's command loop takes the command
   datagram its reliable_recv returned goes on to send one reply: the reply of
   the command, or "Goodbye" after the registry is updated; it neither goes
   back to reliable_recv without a reply, nor ends the worker, nor starts the
   first of two replies. *)
C14_OneReply ==
    [][\A w \in Workers :
          (pc[w] = "recv_cmd" /\ Ready(w) /\ rr'[w] # rr[w]) =>
              pc'[w] \in {"reply_send", "lock_xit"}]_vars

(* C15: what a client's reliable_recv returns after it has sent a command is
   the reply the server's command loop makes to that command, whenever the
   loop makes one. *)
C15_MatchedReply ==
    [][\A c \in Clients :
          (pc[c] \in {"cmd_resp", "xit_resp"} /\ Ready(c) /\ pc'[c] # pc[c]) =>
              LET d == Dispatch(files, username[c], typed[c].command)
              IN  d.replies # <<>> => Is(rr[c], d.replies[1])]_vars

(* The clients that have sent a datagram: those a username was typed at. *)
Endpoints == {c \in Clients : typed[c].logins > 0}

(* The session workers started and not ended. *)
Live == {w \in Workers : pc[w] \notin {"off", "done", "crashed"}}

(* C16: while one endpoint only has sent datagrams to the server, the
   acceptor starts a worker only when no worker is live: every datagram it
   can read is of that endpoint, which a live worker serves. *)
C16_OneWorkerPerEndpoint ==
    [][(Started' > Started /\ Cardinality(Endpoints) = 1) => Live = {}]_vars

(* C17: the acceptor is in its loop at every reachable state, whatever has
   happened to the session workers and whatever timeout they have set on the
   socket, and once a worker has ended it starts a worker for the next
   datagram it can read. *)
C17_AcceptorRuns ==
    /\ pc["main"] = "accept"
    /\ ((\E w \in Workers : pc[w] = "done") /\ CanRead("main")) => ENABLED Accept

(* The one worker started has ended by the exception of "RDT uploads", a
   worker's reliable_send has set a timeout on the server's socket, and a
   datagram is there for the acceptor. *)
C17_Witness ==
    \E w \in Workers, c \in Clients :
        /\ typed[c].command = Text.RDT \o <<" ">> \o UPLOAD_DIR
        /\ pc[w] = "done" /\ username[w] = username[c] /\ Started = 1
        /\ "S" \in settimeout
        /\ CanRead("main")

(* A message of user in a thread file: f"{msg_number} {username}: {message}",
   and the number such a line begins with. *)
IsMessageOf(line, user) ==
    /\ Len(Split1(line)) = 2
    /\ PyInt(Split1(line)[1]).ok
    /\ StartsWith(Split1(line)[2], user \o <<":", " ">>)
IsMessage(line) == \E user \in StoreUsers : IsMessageOf(line, user)
Ordinal(line) == PyInt(Split1(line)[1]).val

(* The messages of a thread file in storage order: the lines after the
   creator's that are messages. *)
Messages(lines) == SelectSeq(Tail(lines), IsMessage)

(* The thread files. *)
Threads == {p \in DOMAIN files : ~files[p].dir /\ ~Contains(p, SLASH)}

(* C18: in every thread file the ordinals of the messages are contiguous in
   storage order, with no gap and no duplicate, from 0, or from 1 if the
   creator's line is counted as the thread's line 0. *)
C18_ContiguousOrdinals ==
    \A p \in Threads :
        \E base \in {0, 1} :
            \A i \in 1..Len(Messages(files[p].lines)) :
                Ordinal(Messages(files[p].lines)[i]) = base + i - 1

(* The author and the body of a message line, and a message as the three
   things the thread file keeps of it. *)
AuthorOf(line) == CHOOSE user \in StoreUsers : IsMessageOf(line, user)
BodyOf(line) ==
    SubSeq(Split1(line)[2], Len(AuthorOf(line)) + 3, Len(Split1(line)[2]))
Message(line) == [ordinal |-> Ordinal(line), author |-> AuthorOf(line), body |-> BodyOf(line)]
MessagesOf(lines) == [i \in 1..Len(Messages(lines)) |-> Message(Messages(lines)[i])]

(* The last command was a DLT of message k of thread t answered "Message k
   deleted from t". *)
Deleted(t, k) ==
    /\ test.cmd = Text.DLT \o <<" ">> \o t \o <<" ">> \o Str(k)
    /\ test.replies = <<Text.TxtMessage \o Str(k) \o Text.TxtDeletedFrom \o t>>

(* C19: a step in which DLT of ordinal k succeeds leaves the messages of the
   thread as they were, in their order, with their authors and bodies, but
   for the message of ordinal k, which is gone, and for the ordinals above k,
   which are one less each. *)
C19_DeleteRenumbers ==
    [][\A t \in Threads, k \in 1..MaxLines :
          Deleted(t, k)' =>
              LET old == MessagesOf(files[t].lines)
                  rest == SelectSeq(old, LAMBDA m : m.ordinal # k)
              IN  /\ Len(rest) = Len(old) - 1
                  /\ MessagesOf(files'[t].lines) =
                       [i \in 1..Len(rest) |->
                           IF rest[i].ordinal > k
                           THEN [rest[i] EXCEPT !.ordinal = @ - 1] ELSE rest[i]]]_vars

(* Message 1 of a thread has been deleted, and a message that came after it
   is in the file. *)
C19_Witness ==
    \E t \in Threads :
        /\ Deleted(t, 1)
        /\ \E i \in 1..Len(Messages(files[t].lines)) :
              Ordinal(Messages(files[t].lines)[i]) >= 1

(* The last command is DLT or EDT of message k of thread t. *)
DeleteOrEdit(t, k) ==
    \/ test.cmd = Text.DLT \o <<" ">> \o t \o <<" ">> \o Str(k)
    \/ StartsWith(test.cmd, Text.EDT \o <<" ">> \o t \o <<" ">> \o Str(k) \o <<" ">>)

(* C20: a step in which a user's DLT or EDT names message k of a thread, the
   line k of the file being a message of another user, is answered "You can
   only delete (edit) your own messages" and leaves the files as they are. *)
C20_OwnMessagesOnly ==
    [][\A t \in Threads, k \in 1..MaxLines :
          (/\ DeleteOrEdit(t, k)'
           /\ k < Len(files[t].lines)
           /\ IsMessage(files[t].lines[k + 1])
           /\ AuthorOf(files[t].lines[k + 1]) # test'.user) =>
              /\ test'.replies \in {<<Text.OnlyDeleteOwn>>, <<Text.OnlyEditOwn>>}
              /\ files' = files]_vars

(* C3: with loss rate 0 on both sides of the paired channel, every text
   payload is delivered unchanged by reliable_recv, reliable_send returns
   True, and exactly one acknowledgment is sent. *)
C3_TextDelivered ==
    (test.rate = 0 /\ test.rrate = 0 /\ ~test.is_binary) =>
        /\ RecvReturned => rr["rcv"].data = test.data /\ ~rr["rcv"].is_binary
        /\ SendReturned => rs["snd"].ret /\ RecvReturned /\ acked["rcv"] = 1

(* C4: with loss rate 1 reliable_send hands no frame to sendto, returns,
   and returns False with attempts = MAX_RETRIES. *)
C4_LossOneFails ==
    /\ [][(test.rate = 100 /\ Returning("snd")) =>
            (~rs'["snd"].ret /\ rs["snd"].attempts + 1 = MAX_RETRIES)]_vars
    /\ [](test.rate = 100 => sent["snd"] = 0)
    /\ ((test.rate = 100) ~> SendReturned)

C4_Witness == test.rate = 100 /\ SendReturned /\ ~rs["snd"].ret

(* C5: every call of reliable_send returns, whatever datagrams reach the
   sender's socket. *)
C5_SendReturns == <>SendReturned

(* C6: one call of reliable_send hands the frame to sendto at most
   MAX_RETRIES times, whatever datagrams reach the sender's socket. *)
C6_AtMostMaxRetries == sent["snd"] <= MAX_RETRIES

(* C7: reliable_send returns True only on an acknowledgment that carries
   its own sequence number and comes from the address the frame was sent to. *)
C7_AckFromPeer ==
    [][(Returning("snd") /\ rs'["snd"].ret) =>
         /\ sock["P"] # <<>>
         /\ AckMatches(Head(sock["P"]).data, rs["snd"].seq_num)
         /\ Head(sock["P"]).src = rs["snd"].addr]_vars

(* C10: a binary frame is returned by reliable_recv as its payload with
   isBinary = True, whatever the payload's bytes are. *)
C10_BinaryDelivered ==
    (test.is_binary /\ test.rrate = 0 /\ RecvReturned) =>
        rr["rcv"].data = test.data /\ rr["rcv"].is_binary

----------------------------------------------------------------------------
(* The verb and the argument of the last command. *)
LastVerb == Upper(Split1(Strip(test.cmd))[1])
LastArg == IF Len(Split1(Strip(test.cmd))) > 1 THEN Split1(Strip(test.cmd))[2] ELSE <<>>

(* C21: after every command the first record of each thread names the user
   whose CRT created it, and an RMV of a thread by another user than its
   creator leaves the files as they are. *)
C21_CreatorOnly ==
    [][/\ \A p \in test'.created :
             /\ IsFile(files', p[1])
             /\ files'[p[1]].lines # <<>>
             /\ Strip(Head(files'[p[1]].lines)) = p[2]
       /\ \A p \in test.created :
             (LastVerb' = Text.RMV /\ LastArg' = p[1] /\ test'.user # p[2]) => files' = files]_vars

(* The reply to a DWN of a file that is not there. *)
NoSuchFile(title, filename) ==
    {<<NoSuchThread(title)>>,
     <<Text.TxtFile \o filename \o Text.TxtNotInThread \o title>>}

(* C22: once an RMV of thread T has succeeded, a DWN T f of a file f that was
   uploaded under T before it, and not again since, is answered "does not
   exist", also after T is created again. *)
C22_RemovePurges ==
    [][\A u \in test.uploaded :
          (u[3] /\ LastVerb' = Text.DWN /\ LastArg' = u[1] \o <<" ">> \o u[2]) =>
              test'.replies \in NoSuchFile(u[1], u[2])]_vars

(* The titles that a reply to LST lists. *)
Listed(reply) ==
    LET names == SplitLines(SubSeq(reply, Len(Text.TxtThreads) + 1, Len(reply)))
    IN  {names[i] : i \in 1..Len(names)}

(* C29: the reply to LST lists exactly the titles whose CRT succeeded with no
   RMV succeeding since, and is "No threads available" exactly when there is
   none. *)
C29_ListsAll ==
    LastVerb = Text.LST =>
        LET titles == {p[1] : p \in test.created}
        IN  IF titles = {} THEN test.replies = <<Text.NoThreads>>
            ELSE /\ Len(test.replies) = 1
                 /\ StartsWith(test.replies[1], Text.TxtThreads)
                 /\ Listed(test.replies[1]) = titles

(* The thread t holds its creator's line and one message, x posted by user
   and stored with the ordinal k. *)
FirstMessage(t, user, k) ==
    /\ t \in DOMAIN files /\ ~files[t].dir
    /\ Len(files[t].lines) = 2
    /\ files[t].lines[2] = MsgLine(k, user, <<"x">>)

(* C24: the first message posted to a new thread is stored with the ordinal
   0 and read back so: the reply to an RDT of a thread that holds just that
   message contains "0 user: x". *)
C24_FirstOrdinalZero ==
    \A user \in TitleUsers, k \in 0..MaxTitleLines :
        (LastVerb = Text.RDT /\ FirstMessage(LastArg, user, k)) =>
            /\ k = 0
            /\ Len(test.replies) = 1
            /\ Find(test.replies[1], MsgLine(0, user, <<"x">>))

(* C23: of the sessions that issue CRT with one title, one at most is
   answered "created successfully", and no step takes away or changes a line
   that a thread file holds. *)
C23_OneCreator ==
    [][/\ \A p, q \in test'.created : p[1] = q[1] => p = q
       /\ \A t \in Threads :
             /\ t \in DOMAIN files'
             /\ Len(files'[t].lines) >= Len(files[t].lines)
             /\ SubSeq(files'[t].lines, 1, Len(files[t].lines)) = files[t].lines]_vars

(* C25: only the end of the stream ends an upload, and the file that a DWN
   has delivered after it holds exactly the bytes of the file uploaded. *)
C25_RoundTrip ==
    [][/\ (test.at = "upload" /\ test'.at = "stored") => (test.up = <<>> /\ test.closed)
       /\ test'.at = "done" => test'.saved = test'.content]_vars

(* C26: once a worker has sent "Ready for TCP transfer" its listener is open
   when its client connects, and the worker goes on to send the confirmation
   and to read the next command. *)
C26_HandoffCompletes ==
    /\ [][\A c \in Clients :
             (pc[c] = "tcp_connect" /\ pc'[c] # "tcp_connect") =>
                 test.listener = OwnWorker(c)]_vars
    /\ \A w \in HandoffWorkers : (pc[w] = "tcp_bind") ~> (pc[w] = "recv_cmd")

(* C27: the bytes that a worker writes to its session's file come from its
   own client, and no worker fails because another holds the port. *)
C27_OwnClientOnly ==
    \A w \in HandoffWorkers :
        /\ test.from[w] \in {NoProc, OwnClient(w)}
        /\ pc[w] # "raised"

(* C28: the step in which a worker handles XIT leaves its username out of
   logged_users before "Goodbye" is sent, and when a client has received
   "Goodbye" in reply to its XIT the username it was logged in with is not in
   logged_users, so that its next login is not answered "Username in use". *)
C28_ExitFrees ==
    [][/\ \A w \in Workers :
             (pc[w] = "lock_xit" /\ pc'[w] = "goodbye_send") =>
                 username[w] \notin logged_users'
       /\ \A c \in Clients :
             (/\ pc[c] = "xit_resp" /\ pc'[c] = "closed"
              /\ ~rr[c].none /\ rr[c].data = Goodbye) =>
                 username[c] \notin logged_users]_vars

(* C30: while a client that is logged in sends no command, and so no XIT, its
   username stays in logged_users. *)
C30_CrashLocks ==
    [][\A c \in Clients :
          (pc[c] = "cmd" /\ typed[c].command = <<>> /\ username[c] \in logged_users) =>
              username[c] \in logged_users']_vars

----------------------------------------------------------------------------
(* Sessions that share the server's socket. *)

(* The worker has a command in hand: read, being executed or being answered. *)
Executing(w) == pc[w] \in {"lock_xit", "reply_send", "ready_send", "goodbye_send"}

(* C31: every command a worker executes under username u was sent by the
   client endpoint that authenticated as u, and is answered there: the address
   the worker received it from (and replies to) is the address of the client
   whose username is the worker's. *)
C31_OwnCommands ==
    \A w \in Workers :
        Executing(w) =>
            \E c \in Clients : username[c] = username[w] /\ addr[w] = SockOf(c)

(* C32: the teardown of a session that ended without having authenticated
   (it sent "Invalid username", "Username in use", "Invalid Password" or
   "Account creation failed" and returned) leaves logged_users as it was. *)
C32_RejectedKeepsRegistry ==
    [][\A w \in Workers :
          (w \in test.rejected /\ pc[w] = "finally" /\ pc'[w] # "finally") =>
              logged_users' = logged_users]_vars

(* C37: no session worker holds threads_lock while it is in reliable_send or
   in reliable_recv, waiting on the network; so no worker that is ready to
   take the lock for its login, logout or teardown waits for a holder that is
   itself waiting for an acknowledgment. *)
C37_NoLockOverNetwork ==
    /\ \A w \in Workers : threads_lock = w => ~InSend(w) /\ ~InRecv(w)
    /\ \A v \in Workers :
          (pc[v] \in LockPc /\ Ready(v) /\ threads_lock # NoProc) => ~InSend(threads_lock)

----------------------------------------------------------------------------
(* The records of a thread file that are not messages. *)

(* The "<user> uploaded <file>" records of a thread file, in storage order. *)
IsUploadRecord(line) == \E user \in StoreUsers : StartsWith(line, user \o Text.TxtUploadedLine)
UploadRecords(lines) == SelectSeq(lines, IsUploadRecord)

(* C38: a step in which DLT succeeds leaves the creator's line and every
   "<user> uploaded <file>" record of the thread as they were, wherever they
   stand relative to the deleted message. *)
C38_DeleteKeepsRecords ==
    [][\A t \in Threads, k \in 1..MaxLines :
          Deleted(t, k)' =>
              /\ files'[t].lines[1] = files[t].lines[1]
              /\ UploadRecords(files'[t].lines) = UploadRecords(files[t].lines)]_vars

----------------------------------------------------------------------------
(* The replies that refuse a command: "... already exists", "... does not
   exist ...", "You can only ...", "Invalid ...". *)
IsFailure(reply) ==
    \/ Find(reply, Text.TxtAlreadyExists)
    \/ Find(reply, Text.TxtDoesNotExist)
    \/ StartsWith(reply, SubSeq(Text.OnlyRemoveOwn, 1, 13))
    \/ StartsWith(reply, SubSeq(InvalidCommand, 1, 8))

(* C34: a pass of the command loop that answers with a failure reply leaves
   the thread store, the upload store, the credential store and the registry
   as they were, sends that one reply, goes on to no TCP transfer, raises
   nothing and stays in the loop. *)
C34_FailureChangesNothing ==
    [][(test'.replies # <<>> /\ IsFailure(test'.replies[1])) =>
          LET d == Dispatch(files, test'.user, test'.cmd)
          IN  /\ files' = files
              /\ credentials' = credentials
              /\ logged_users' = logged_users
              /\ test'.replies = d.replies /\ Len(d.replies) = 1
              /\ ~d.tcp /\ ~d.raised /\ ~d.exit]_vars

(* CRT of a title that another user's thread has, with a message in it, was
   answered "already exists". *)
C34_Witness ==
    /\ test.cmd = Text.CRT \o <<" ", "t">>
    /\ test.replies = <<Text.TxtThread \o <<"t">> \o Text.TxtAlreadyExists>>
    /\ Len(files[<<"t">>].lines) = 2
    /\ Head(files[<<"t">>].lines) # test.user

----------------------------------------------------------------------------
(* The message lines of a thread file, and those of one user. *)
MessageLines(lines) ==
    {i \in 2..Len(lines) : \E w \in CreateWorkers : IsMessageOf(lines[i], username[w])}
MessageLinesOf(lines, user) == {i \in 2..Len(lines) : IsMessageOf(lines[i], user)}

(* C35: every message for which a session was sent "Message posted" and
   which its author has not deleted is stored in the thread, and no two
   messages of the thread have one ordinal, also while the other session runs
   MSG, DLT or EDT on the thread. *)
C35_PostedStays ==
    LET lines == files[CreateTitle].lines
    IN  /\ \A w \in CreateWorkers :
              Cardinality(MessageLinesOf(lines, username[w])) >= test.posted[w]
        /\ \A i, j \in MessageLines(lines) :
              Ordinal(lines[i]) = Ordinal(lines[j]) => i = j

----------------------------------------------------------------------------
(* The accounts the new-account flow has answered "Account Created" for. *)
Accounts == test.accounts

(* C36: once "Account Created" has been sent for username u and password p,
   a session that sends u while u is not logged in is answered "Username OK",
   and one that then sends p is answered "Welcome"; and every session that
   has received the username a client typed answers it. *)
C36_CredentialsRoundTrip ==
    [][\A w \in Workers :
          /\ (/\ pc[w] = "lock_check" /\ pc'[w] # "lock_check" /\ Accounts # {}
              /\ \E c \in Clients : username[c] = username[w] /\ addr[w] = SockOf(c)) =>
                pc'[w] \in {"inuse_send", "prompt_send"}
          /\ (/\ pc[w] = "lock_check" /\ pc'[w] # "lock_check"
              /\ username[w] \notin logged_users
              /\ \E a \in Accounts : a[1] = username[w]) =>
                (pc'[w] = "prompt_send" /\ user_exists'[w])
          /\ (/\ pc[w] = "recv_pass" /\ pc'[w] # "recv_pass"
              /\ <<username[w], rr[w].data>> \in Accounts) =>
                (user_exists[w] /\ pc'[w] = "welcome_send")]_vars

----------------------------------------------------------------------------
(* C33: a command the client submits once is executed at most once: the
   thread holds no more messages than MSG commands were typed, also when the
   client retransmits the command's frame because the frame or its
   acknowledgment was late. *)
C33_AtMostOnce ==
    \A t \in Threads : Len(files[t].lines) - 1 <= CmdsTyped(Clients)

====
